---- MODULE Spec2Model ----
(***************************************************************************)
(* A model of the Time Tree plugin (lucaslopes/time-tree): the recursive   *)
(* recompute of elapsed / descendants / node_size over the link graph of a *)
(* vault (src/src/time-tree-calculator.ts), the front matter read/update   *)
(* helpers (src/src/front-matter-manager.ts) and the two commands          *)
(* computeTimeTree and elapsedTime (src/src/main.ts, lines 1-271).         *)
(*                                                                         *)
(* Every async function is a frame on the call stack of the task that runs *)
(* it; one action is the code between two awaits that matter.  The user's  *)
(* commands run in the task "user", the callback of the periodic timer in  *)
(* the task "timer".  updateProperty is two steps, the read of the note    *)
(* and vault.modify, so that the steps of two tasks interleave between     *)
(* them.  The text of a note, as updateProperty parses and rebuilds it, is *)
(* modelled on one note apart (the variable content).                      *)
(***************************************************************************)
EXTENDS Integers, Sequences, FiniteSets, TLC

(***************************************************************************)
(* Bounds of the model.                                                    *)
(***************************************************************************)
\* Most links in the whole vault.
MaxLinks == 3
\* Longest tracked duration of one session.
MaxDur == 2
\* Most tracker sessions in one note.
MaxTrackers == 2
\* Latest creation time of a note.
MaxCtime == 2
\* Deepest call stack of one task (the JS stack is finite too).
MaxDepth == 8
MaxTotal == 40
\* Most lines between the marker lines of a note's front matter, and most
\* lines after them, in the notes whose text is modelled.
MaxYamlLines == 2
MaxBodyLines == 2
\* The number of timers setInterval creates
MaxTimers == 2
\* The walk up the parents: links of the vaults it is checked on, and the
\* stored total up to which it takes a further hop
MaxWalkLinks == 2
MaxWalkTotal == 200

(***************************************************************************)
(* The vault: four notes, in the order the metadata cache iterates them.   *)
(*   R.md   T/A.md   T/S/B.md   T2/C.md                                    *)
(***************************************************************************)
DocOrder == <<"R", "A", "B", "C">>
Docs == {DocOrder[k] : k \in 1..Len(DocOrder)}
\* null / undefined where the code expects a TFile; also an unresolved link.
NoDoc == "none"
Rank(d) == CHOOSE k \in 1..Len(DocOrder) : DocOrder[k] = d

\* TFile.path, one character per element.
Path(d) ==
    CASE d = "R" -> <<"R">>
      [] d = "A" -> <<"T", "/", "A">>
      [] d = "B" -> <<"T", "/", "S", "/", "B">>
      [] d = "C" -> <<"T", "2", "/", "C">>
\* TFile.parent.path; the vault root folder's path is "/".
ParentPath(d) ==
    CASE d = "R" -> <<"/">>
      [] d = "A" -> <<"T">>
      [] d = "B" -> <<"T", "/", "S">>
      [] d = "C" -> <<"T", "2">>
\* String.prototype.startsWith
StartsWith(s, p) == Len(p) <= Len(s) /\ SubSeq(s, 1, Len(p)) = p

Tasks == {"user", "timer"}
Keys == {"elapsed", "descendants", "node_size"}

VARIABLES
    links,      \* note -> its fileCache.links, each resolved to a note or NoDoc
    trackers,   \* note -> the total duration of each of its tracker sessions
    ctime,      \* note -> stat.ctime
    malformed,  \* the notes whose front matter YAML.parse rejects
    settings,   \* TimeTreeSettings
    activeFile, \* app.workspace.getActiveFile()
    fm,         \* note -> its front matter: attribute name -> value
    stack,      \* task -> its call stack, the running function on top
    visited,    \* task -> the visited set of its gatherDescendantFiles call
    last,       \* the operation that completed last and the front matter then
    reads,      \* task -> what its updateProperty in progress read of the note
    computeIntervalHandle, \* the plugin's field: 0 (undefined) or a timer id
    intervals,  \* the ids of the timers that setInterval made and none cleared
    scheduling, \* the calls of scheduleComputeTimeTree that are still to run
    unloaded,   \* onunload has run
    fired,      \* flips every time the callback of a timer starts
    content,    \* the text of one note, as a list of lines
    attempt     \* the last updateProperty on that text: what it read and set

vars == <<links, trackers, ctime, malformed, settings, activeFile, fm, stack,
          visited, last, reads, computeIntervalHandle, intervals, scheduling,
          unloaded, fired, content, attempt>>

(***************************************************************************)
(* Arithmetic helpers.                                                     *)
(***************************************************************************)
RECURSIVE SumSeq(_)
SumSeq(s) == IF s = <<>> THEN 0 ELSE s[1] + SumSeq(Tail(s))

\* Math.min(...xs), Math.max(...xs) of a non-empty list
MinOf(xs) == CHOOSE m \in {xs[k] : k \in 1..Len(xs)} :
                 \A k \in 1..Len(xs) : m <= xs[k]
MaxOf(xs) == CHOOSE m \in {xs[k] : k \in 1..Len(xs)} :
                 \A k \in 1..Len(xs) : m >= xs[k]

RECURSIVE GCD(_, _)
GCD(a, b) == IF b = 0 THEN a ELSE GCD(b, a % b)

(***************************************************************************)
(* node_size.  The code stores Math.sqrt(A) for a rational area A; the     *)
(* model stores the number by its square, the fraction A in lowest terms   *)
(* [num, den], so that equality and order of sizes are those of the areas. *)
(***************************************************************************)
min_d == 6
max_d == 100
A_min == min_d * min_d
A_max == max_d * max_d
Diameter(n) == [num |-> n * n, den |-> 1]
SqrtOfArea(n, d) == LET g == GCD(n, d) IN [num |-> n \div g, den |-> d \div g]

(***************************************************************************)
(* FrontMatterManager (src/src/front-matter-manager.ts).                   *)
(***************************************************************************)
\* getProperty: (frontmatter[property] || 0); a YAML error is caught, 0 stays.
GetProperty(f, d, k) ==
    IF d \in malformed THEN 0
    ELSE IF k \in DOMAIN f[d] THEN f[d][k] ELSE 0

\* Faulty variant: the new block holds the assigned attribute only.
UpdatePropertyAlone(f, d, k, v) ==
    IF d \in malformed THEN f
    ELSE [f EXCEPT ![d] = [x \in {k} |-> v]]

\* updateProperty with the updater fm[k] = v: the front matter after it.  A
\* YAML error returns before vault.modify.
UpdateProperty(f, d, k, v) ==
    IF d \in malformed THEN f
    ELSE [f EXCEPT ![d] =
            [x \in (DOMAIN f[d]) \cup {k} |-> IF x = k THEN v ELSE f[d][x]]]

(***************************************************************************)
(* The same two functions on the text of a note.  The text is a list of    *)
(* lines (the content split at "\n"); a line is one of                     *)
(*   "---"    the marker line                                              *)
(*   "---x"   a line that starts with --- and goes on; "x" is what follows *)
(*   "kv"     key: value                                                   *)
(*   "#"      a YAML comment (a heading, in the body)                      *)
(*   "!"      a line YAML.parse rejects                                    *)
(*   "text"   any other line,   ""  an empty line,   "{}"  the empty map   *)
(* fm[d] above is what YamlParse gives for the note d, and d is in         *)
(* malformed when YamlThrows.                                              *)
(***************************************************************************)
Line(kind) == [kind |-> kind, key |-> "", value |-> 0]
KV(k, v) == [kind |-> "kv", key |-> k, value |-> v]
Dashes == Line("---")
DashesMore == Line("---x")
More == Line("x")
Comment == Line("#")
Bad == Line("!")
TextLine == Line("text")
Empty == Line("")

\* yamlRegex = /^---\n([\s\S]*?)\n---/ : the index of the line the match ends
\* in, the first line from the third on that starts with ---; 0 for no match.
YamlMatch(c) ==
    LET ends == {j \in 3..Len(c) : c[j].kind \in {"---", "---x"}}
    IN  IF Len(c) >= 3 /\ c[1] = Dashes /\ ends # {}
        THEN CHOOSE j \in ends : \A m \in ends : j <= m
        ELSE 0

\* yamlMatch[1]
YamlText(c) == SubSeq(c, 2, YamlMatch(c) - 1)

\* Faulty variant: a parser that skips what it cannot read.
YamlNeverThrows(y) == FALSE

\* The try block throws: YAML.parse on a line it rejects or on a key that
\* comes twice; the updater on a value that is no mapping (the assignment of
\* a property to a string throws in module code).
YamlThrows(y) ==
    \/ \E i \in 1..Len(y) : y[i].kind \notin {"kv", "#", ""}
    \/ \E i, j \in 1..Len(y) :
          i < j /\ y[i].kind = "kv" /\ y[j].kind = "kv" /\ y[i].key = y[j].key

\* YAML.parse(yamlMatch[1]) || {} : the entries in their order; comments and
\* empty lines are not part of the value.
YamlParse(y) == SelectSeq(y, LAMBDA l : l.kind = "kv")

\* Faulty variant: the updater returns a mapping with the assigned key only.
UpdaterFresh(frontmatter, k, v) == <<KV(k, v)>>

\* updater(frontmatter) for fm[k] = v: the key keeps its place, a new key
\* comes last.
Updater(frontmatter, k, v) ==
    IF \E i \in 1..Len(frontmatter) : frontmatter[i].key = k
    THEN [i \in 1..Len(frontmatter) |->
             IF frontmatter[i].key = k THEN KV(k, v) ELSE frontmatter[i]]
    ELSE Append(frontmatter, KV(k, v))

\* YAML.stringify(frontmatter): a line per entry, {} for no entry
YamlStringify(frontmatter) ==
    IF frontmatter = <<>> THEN <<Line("{}")>> ELSE frontmatter

\* newYamlBlock = `---\n${YAML.stringify(frontmatter)}---`
NewYamlBlock(frontmatter) == <<Dashes>> \o YamlStringify(frontmatter) \o <<Dashes>>

\* afterYaml = content.slice(yamlMatch[0].length), as the lines it splits
\* into: it starts with "\n" when its first line is empty and not its last.
AfterYaml(c) ==
    <<IF c[YamlMatch(c)] = Dashes THEN Empty ELSE More>>
    \o SubSeq(c, YamlMatch(c) + 1, Len(c))

\* newContent of updateProperty
NewContent(c, frontmatter) ==
    IF YamlMatch(c) # 0
    THEN LET afterYaml == AfterYaml(c)
         IN  NewYamlBlock(frontmatter)
             \o (IF afterYaml[1] = Empty /\ Len(afterYaml) >= 2
                 THEN Tail(afterYaml)
                 ELSE afterYaml)
    ELSE NewYamlBlock(frontmatter) \o c

\* updateProperty(file, fm => { fm[k] = v }) on the content c: the content of
\* the file after it.  A throw returns before vault.modify.
UpdatePropertyContent(c, k, v) ==
    IF YamlMatch(c) # 0 /\ YamlThrows(YamlText(c))
    THEN c
    ELSE NewContent(c, Updater(IF YamlMatch(c) # 0 THEN YamlParse(YamlText(c)) ELSE <<>>,
                               k, v))

\* getProperty(file, k) on the content c
GetPropertyContent(c, k) ==
    IF YamlMatch(c) = 0 \/ YamlThrows(YamlText(c)) THEN 0
    ELSE LET frontmatter == YamlParse(YamlText(c))
         IN  IF \E i \in 1..Len(frontmatter) : frontmatter[i].key = k
             THEN (CHOOSE l \in {frontmatter[i] : i \in 1..Len(frontmatter)} :
                       l.key = k).value
             ELSE 0

(***************************************************************************)
(* TimeTreeCalculator (src/src/time-tree-calculator.ts): the parts that    *)
(* make no call that awaits a write.                                       *)
(***************************************************************************)
\* Faulty variant: localElapsed starts from the stored elapsed instead of 0.
CalculateElapsedTimeOnStored(d) ==
    GetProperty(fm, d, "elapsed")
    + (IF Len(trackers[d]) > 0
       THEN IF settings.onlyFirstTracker THEN trackers[d][1]
            ELSE SumSeq(trackers[d])
       ELSE 0)

\* Faulty variant: the earlier calculateElapsedTime, which takes the first
\* tracker whatever the setting says.
CalculateElapsedTimeFirstOnly(d) ==
    IF Len(trackers[d]) > 0 THEN trackers[d][1] ELSE 0

\* calculateElapsedTime: the first session, or the sum of all sessions.
CalculateElapsedTime(d) ==
    IF Len(trackers[d]) > 0
    THEN IF settings.onlyFirstTracker THEN trackers[d][1]
         ELSE SumSeq(trackers[d])
    ELSE 0

\* getFirstLinkpathDest(link.link, file.path) of the j-th link of d
ChildFile(d, j) == links[d][j]

\* The scope filter of getParentFile on one backlink source.
ParentInScope(p) ==
    IF settings.RootFolderPath # <<>>
    THEN IF settings.considerSubdirs
         THEN StartsWith(Path(p), settings.RootFolderPath)
         ELSE ParentPath(p) = settings.RootFolderPath
    ELSE TRUE

\* The scope filter of gatherDescendantFiles on one resolved child.
ChildInScope(c) ==
    IF settings.RootFolderPath # <<>>
    THEN IF settings.considerSubdirs
         THEN StartsWith(Path(c), settings.RootFolderPath)
         ELSE ParentPath(c) = settings.RootFolderPath
    ELSE TRUE

\* getBacklinksForFile(file)["data"]: the notes with a resolved link to the
\* file, in the cache's iteration order.
HasLinkTo(s, d) == \E j \in 1..Len(links[s]) : links[s][j] = d
Backlinks(d) == SelectSeq(DocOrder, LAMBDA s : HasLinkTo(s, d))

\* candidateFiles of getParentFile
CandidateFiles(d) == SelectSeq(Backlinks(d), ParentInScope)

\* Faulty variant: <= in place of <, the last of several oldest candidates wins.
IsOlderOrSame(candidate, oldestFile) == ctime[candidate] <= ctime[oldestFile]

\* candidate.stat.ctime < oldestFile.stat.ctime
IsOlder(candidate, oldestFile) == ctime[candidate] < ctime[oldestFile]

\* The loop of getParentFile over candidateFiles, from index k on.
RECURSIVE OldestFrom(_, _, _)
OldestFrom(c, k, oldestFile) ==
    IF k > Len(c) THEN oldestFile
    ELSE OldestFrom(c, k + 1, IF IsOlder(c[k], oldestFile) THEN c[k] ELSE oldestFile)
\* Faulty variant: the configured root note has no parent.
GetParentFileBelowRoot(d) ==
    LET c == CandidateFiles(d)
    IN  IF Len(c) = 0 \/ d = settings.rootNotePath THEN NoDoc
        ELSE OldestFrom(c, 1, c[1])

\* Faulty variant: a note is never its own parent.
GetParentFileNotSelf(d) ==
    LET c == CandidateFiles(d)
        p == IF Len(c) = 0 THEN NoDoc ELSE OldestFrom(c, 1, c[1])
    IN  IF p = d THEN NoDoc ELSE p

\* getParentFile: none without candidates, else the oldest, the first of the
\* oldest when several have the same creation time
GetParentFile(d) ==
    LET c == CandidateFiles(d)
    IN  IF Len(c) = 0 THEN NoDoc ELSE OldestFrom(c, 1, c[1])

\* Faulty variant: the loop ends at the first link that does not resolve.
NextResolvedUntilDangling(d, i) ==
    IF i <= Len(links[d]) /\ ChildFile(d, i) # NoDoc THEN i ELSE 0

\* Faulty variant: a child whose front matter does not parse ends the loop,
\* as an exception of YAML.parse outside a try would.
NextResolvedUntilMalformed(d, i) ==
    LET c == {j \in i..Len(links[d]) : ChildFile(d, j) # NoDoc}
        n == IF c = {} THEN 0 ELSE CHOOSE j \in c : \A m \in c : j <= m
    IN  IF n # 0 /\ ChildFile(d, n) \in malformed THEN 0 ELSE n

\* The index of the next link of d, from i on, that resolves to a note (the
\* loops skip the others without awaiting); 0 when there is none.
NextResolved(d, i) ==
    LET c == {j \in i..Len(links[d]) : ChildFile(d, j) # NoDoc}
    IN  IF c = {} THEN 0 ELSE CHOOSE j \in c : \A m \in c : j <= m

\* The same for gatherDescendantFiles, which also skips out-of-scope children.
NextGathered(d, i) ==
    LET c == {j \in i..Len(links[d]) :
                 ChildFile(d, j) # NoDoc /\ ChildInScope(ChildFile(d, j))}
    IN  IF c = {} THEN 0 ELSE CHOOSE j \in c : \A m \in c : j <= m

\* Faulty variant: the children's own elapsed only, without their descendants.
RECURSIVE StoredChildElapsed(_, _, _)
StoredChildElapsed(f, d, i) ==
    IF i > Len(links[d]) THEN 0
    ELSE (IF ChildFile(d, i) # NoDoc
          THEN GetProperty(f, ChildFile(d, i), "elapsed")
          ELSE 0)
         + StoredChildElapsed(f, d, i + 1)

\* calculateRecursiveElapsedChild(file, false): the sum, over the resolved
\* children from link i on, of their stored elapsed + descendants.
RECURSIVE StoredChildTotals(_, _, _)
StoredChildTotals(f, d, i) ==
    IF i > Len(links[d]) THEN 0
    ELSE (IF ChildFile(d, i) # NoDoc
          THEN GetProperty(f, ChildFile(d, i), "elapsed")
               + GetProperty(f, ChildFile(d, i), "descendants")
          ELSE 0)
         + StoredChildTotals(f, d, i + 1)

\* Faulty variant: acc is the note's own elapsed, without its descendants.
AccValuesOwnOnly(f, files) ==
    [k \in 1..Len(files) |-> GetProperty(f, files[k], "elapsed")]

\* updateNodeSizeFromFile: the acc of every collected file.
AccValues(f, files) ==
    [k \in 1..Len(files) |->
        GetProperty(f, files[k], "elapsed") + GetProperty(f, files[k], "descendants")]

\* Faulty variant: the minimum and maximum are taken over the descendants only.
AccNumbersOfDescendants(accValues) ==
    IF Len(accValues) > 1 THEN Tail(accValues) ELSE accValues
\* Faulty variant: const minAcc = 0, as an earlier version of the function has it.
MinAccZero(accNumbers) == 0

\* accNumbers = accValues.map((item) => item.acc), and its minimum and maximum
AccNumbers(accValues) == accValues
MinAcc(accNumbers) == MinOf(accNumbers)
MaxAcc(accNumbers) == MaxOf(accNumbers)

\* Faulty variant: the degenerate case gives min_d whatever acc is.
NodeSizeDegenerateMin(acc, minAcc, maxAcc) ==
    IF maxAcc = minAcc
    THEN Diameter(min_d)
    ELSE SqrtOfArea(A_min * (maxAcc - minAcc) + (acc - minAcc) * (A_max - A_min),
                    maxAcc - minAcc)

\* Faulty variant: the area is interpolated from the maximum downwards.
NodeSizeFromMax(acc, minAcc, maxAcc) ==
    IF maxAcc = minAcc
    THEN IF acc = 0 THEN Diameter(min_d) ELSE Diameter(max_d)
    ELSE SqrtOfArea(A_min * (maxAcc - minAcc) + (maxAcc - acc) * (A_max - A_min),
                    maxAcc - minAcc)

\* updateNodeSizeFromFile: the node_size of one file.
NodeSize(acc, minAcc, maxAcc) ==
    IF maxAcc = minAcc
    THEN IF acc = 0 THEN Diameter(min_d) ELSE Diameter(max_d)
    ELSE SqrtOfArea(A_min * (maxAcc - minAcc) + (acc - minAcc) * (A_max - A_min),
                    maxAcc - minAcc)

(***************************************************************************)
(* Call stacks.                                                            *)
(***************************************************************************)
Frame(fn, file, pc) ==
    [fn |-> fn, file |-> file, pc |-> pc, i |-> 1, recursive |-> TRUE,
     own |-> 0, total |-> 0, files |-> <<>>, acc |-> <<>>, parent |-> NoDoc]

Idle(t) == stack[t] = <<>>
Top(t) == stack[t][Len(stack[t])]
Running(t, fn, pc) == ~Idle(t) /\ Top(t).fn = fn /\ Top(t).pc = pc
SetTop(s, f) == [s EXCEPT ![Len(s)] = f]
Pop(s) == SubSeq(s, 1, Len(s) - 1)

\* updateProperty in two steps.  NoRead: the task has no updateProperty in
\* progress.  AsRead(t): the front matter with the note of t's updateProperty
\* as t read it (line 31), which is what the updater and vault.modify work on.
NoRead == [file |-> NoDoc, content |-> <<>>]
HasRead(t, d) == reads[t].file = d /\ d # NoDoc
\* Faulty variant: the updater works on the content at the time of the write.
AsWritten(t) == fm
AsRead(t) == [fm EXCEPT ![reads[t].file] = reads[t].content]

\* Faulty variant: the caller keeps the total of the last child only.
ReturnTotalOfLast(s, v) ==
    LET r == Pop(s)
    IN  IF r # <<>> /\ r[Len(r)].fn = "calculateRecursiveElapsedChild"
        THEN SetTop(r, [r[Len(r)] EXCEPT !.total = v])
        ELSE r

\* calculateRecursiveElapsedChild returns v: its caller adds it to
\* totalDescendantElapsed; computeTimeTree and communicateAscendants drop it.
ReturnTotal(s, v) ==
    LET r == Pop(s)
    IN  IF r # <<>> /\ r[Len(r)].fn = "calculateRecursiveElapsedChild"
        THEN SetTop(r, [r[Len(r)] EXCEPT !.total = @ + v])
        ELSE r

\* gatherDescendantFiles returns fs: its caller pushes them onto its files;
\* updateNodeSizeFromFile makes [file, ...descendantFiles] of them.
ReturnFiles(s, fs) ==
    LET r == Pop(s)
        c == r[Len(r)]
    IN  IF c.fn = "gatherDescendantFiles"
        THEN SetTop(r, [c EXCEPT !.files = @ \o fs])
        ELSE SetTop(r, [c EXCEPT !.files = <<c.file>> \o fs])

(***************************************************************************)
(* The commands (src/src/main.ts).                                         *)
(***************************************************************************)
\* Faulty variant: a path that names no note falls back on the first note.
RootFileOrFirst ==
    IF settings.rootNotePath \in Docs THEN settings.rootNotePath ELSE DocOrder[1]

\* this.app.vault.getAbstractFileByPath(rootPath), when it is a TFile
RootFile == IF settings.rootNotePath \in Docs THEN settings.rootNotePath ELSE NoDoc

\* A call of updateNodeSizeFromFile(file): it starts by calling
\* gatherDescendantFiles(file) with a fresh visited set.
CallUpdateNodeSize(s, file) ==
    s \o <<Frame("updateNodeSizeFromFile", file, "read"),
           Frame("gatherDescendantFiles", file, "enter")>>

Env == <<links, trackers, ctime, malformed, settings, activeFile>>
\* The periodic timer of the plugin, and the note whose text is modelled.
Sched == <<computeIntervalHandle, intervals, scheduling, unloaded>>
Text == <<content, attempt>>

\* A command starts only while the stored totals are within MaxTotal (on a
\* link cycle every run of a command can add to them).
WithinMaxTotal == \A d \in Docs : GetProperty(fm, d, "descendants") <= MaxTotal

\* computeTimeTree up to its first await: the two notices that end it, or the
\* call of calculateRecursiveElapsedTime(rootFile).
ComputeTimeTree(t) ==
    /\ Idle(t)
    /\ WithinMaxTotal
    /\ fired' = IF t = "timer" THEN ~fired ELSE fired
    /\ IF settings.rootNotePath = "" \/ RootFile = NoDoc
       THEN /\ last' = [op |-> "computeTimeTree", fm |-> fm]
            /\ UNCHANGED stack
       ELSE /\ stack' = [stack EXCEPT ![t] =
                  <<Frame("computeTimeTree", RootFile, "child"),
                    Frame("calculateRecursiveElapsedTime", RootFile, "enter")>>]
            /\ UNCHANGED last
    /\ UNCHANGED <<Env, Sched, Text, reads, fm, visited>>

\* computeTimeTree after calculateRecursiveElapsedTime returned
ComputeTimeTreeChild(t) ==
    /\ Running(t, "computeTimeTree", "child")
    /\ stack' = [stack EXCEPT ![t] =
          Append(SetTop(@, [Top(t) EXCEPT !.pc = "size"]),
                 Frame("calculateRecursiveElapsedChild", Top(t).file, "enter"))]
    /\ UNCHANGED <<Env, Sched, Text, fired, reads, fm, visited, last>>

\* computeTimeTree after calculateRecursiveElapsedChild returned
ComputeTimeTreeSize(t) ==
    /\ Running(t, "computeTimeTree", "size")
    /\ stack' = [stack EXCEPT ![t] =
          CallUpdateNodeSize(SetTop(@, [Top(t) EXCEPT !.pc = "done"]), Top(t).file)]
    /\ visited' = [visited EXCEPT ![t] = {}]
    /\ UNCHANGED <<Env, Sched, Text, fired, reads, fm, last>>

\* computeTimeTree after updateNodeSizeFromFile returned
ComputeTimeTreeDone(t) ==
    /\ Running(t, "computeTimeTree", "done")
    /\ stack' = [stack EXCEPT ![t] = Pop(@)]
    /\ last' = [op |-> "computeTimeTree", fm |-> fm]
    /\ UNCHANGED <<Env, Sched, Text, fired, reads, fm, visited>>

\* elapsedTime up to the 10 ms timeout: the duration is computed here.
ElapsedTime(t) ==
    /\ Idle(t)
    /\ WithinMaxTotal
    /\ IF activeFile = NoDoc
       THEN /\ last' = [op |-> "elapsedTime", fm |-> fm]
            /\ UNCHANGED stack
       ELSE /\ stack' = [stack EXCEPT ![t] =
                  <<[Frame("elapsedTime", activeFile, "write")
                        EXCEPT !.own = CalculateElapsedTime(activeFile)]>>]
            /\ UNCHANGED last
    /\ UNCHANGED <<Env, Sched, Text, fired, reads, fm, visited>>

\* Faulty variant: the earlier elapsedTime, which leaves the write of elapsed
\* to calculateElapsedTime and goes on to communicateAscendants.
ElapsedTimeWithoutWrite(t) ==
    /\ Running(t, "elapsedTime", "write")
    /\ reads' = [reads EXCEPT ![t] = NoRead]
    /\ stack' = [stack EXCEPT ![t] =
          Append(SetTop(@, [Top(t) EXCEPT !.pc = "size"]),
                 Frame("communicateAscendants", Top(t).file, "start"))]
    /\ UNCHANGED <<Env, Sched, Text, fired, fm, visited, last>>

\* elapsedTime: the write of elapsed, then the call of communicateAscendants
ElapsedTimeWrite(t) ==
    /\ Running(t, "elapsedTime", "write")
    /\ HasRead(t, Top(t).file)
    /\ fm' = UpdateProperty(AsRead(t), Top(t).file, "elapsed", Top(t).own)
    /\ reads' = [reads EXCEPT ![t] = NoRead]
    /\ stack' = [stack EXCEPT ![t] =
          Append(SetTop(@, [Top(t) EXCEPT !.pc = "size"]),
                 Frame("communicateAscendants", Top(t).file, "start"))]
    /\ UNCHANGED <<Env, Sched, Text, fired, visited, last>>

\* elapsedTime after communicateAscendants returned
ElapsedTimeSize(t) ==
    /\ Running(t, "elapsedTime", "size")
    /\ IF settings.rootNotePath # "" /\ RootFile # NoDoc
       THEN /\ stack' = [stack EXCEPT ![t] =
                  CallUpdateNodeSize(SetTop(@, [Top(t) EXCEPT !.pc = "done"]), RootFile)]
            /\ visited' = [visited EXCEPT ![t] = {}]
       ELSE /\ stack' = [stack EXCEPT ![t] = SetTop(@, [Top(t) EXCEPT !.pc = "done"])]
            /\ UNCHANGED visited
    /\ UNCHANGED <<Env, Sched, Text, fired, reads, fm, last>>

\* elapsedTime: the closing notice
ElapsedTimeDone(t) ==
    /\ Running(t, "elapsedTime", "done")
    /\ stack' = [stack EXCEPT ![t] = Pop(@)]
    /\ last' = [op |-> "elapsedTime", fm |-> fm]
    /\ UNCHANGED <<Env, Sched, Text, fired, reads, fm, visited>>

(***************************************************************************)
(* TimeTreeCalculator: the recursive functions, one step at a time.        *)
(***************************************************************************)
\* calculateRecursiveElapsedTime: the duration of the file, stored in elapsed
RecursiveElapsedTimeEnter(t) ==
    /\ Running(t, "calculateRecursiveElapsedTime", "enter")
    /\ HasRead(t, Top(t).file)
    /\ fm' = UpdateProperty(AsRead(t), Top(t).file, "elapsed",
                            CalculateElapsedTime(Top(t).file))
    /\ reads' = [reads EXCEPT ![t] = NoRead]
    /\ stack' = [stack EXCEPT ![t] = SetTop(@, [Top(t) EXCEPT !.pc = "links", !.i = 1])]
    /\ UNCHANGED <<Env, Sched, Text, fired, visited, last>>

\* calculateRecursiveElapsedTime: the loop over fileCache.links.  The stack
\* keeps MaxDepth activations: a longer chain of calls has a note twice (there
\* are fewer notes), the call on it repeats itself and no caller on the chain
\* gets an answer, so the callee takes the place of the caller on top.
RecursiveElapsedTimeLinks(t) ==
    /\ Running(t, "calculateRecursiveElapsedTime", "links")
    /\ LET j == NextResolved(Top(t).file, Top(t).i)
       IN  IF j = 0
           THEN stack' = [stack EXCEPT ![t] = Pop(@)]
           ELSE IF Len(stack[t]) < MaxDepth
           THEN stack' = [stack EXCEPT ![t] =
                      Append(SetTop(@, [Top(t) EXCEPT !.i = j + 1]),
                             Frame("calculateRecursiveElapsedTime",
                                   ChildFile(Top(t).file, j), "enter"))]
           ELSE stack' = [stack EXCEPT ![t] =
                      SetTop(@, Frame("calculateRecursiveElapsedTime",
                                      ChildFile(Top(t).file, j), "enter"))]
    /\ UNCHANGED <<Env, Sched, Text, fired, reads, fm, visited, last>>

\* Faulty variant: the total without the note's own elapsed.
ChildTotalWithoutOwn(ownElapsed, totalDescendantElapsed) == totalDescendantElapsed

\* return ownElapsed + totalDescendantElapsed
ChildTotal(ownElapsed, totalDescendantElapsed) == ownElapsed + totalDescendantElapsed

\* Faulty variant: the leaf branch resets elapsed whatever ownElapsed is.
LeafPropertiesAlwaysBoth(ownElapsed) == <<"elapsed", "descendants">>

\* Faulty variant: the leaf branch resets node_size as well.
LeafPropertiesWithSize(ownElapsed) ==
    IF ownElapsed = 0 THEN <<"elapsed", "descendants", "node_size">>
    ELSE <<"descendants", "node_size">>

\* Faulty variant: the test of ownElapsed the other way round.
LeafPropertiesInverted(ownElapsed) ==
    IF ownElapsed # 0 THEN <<"elapsed", "descendants">> ELSE <<"descendants">>

\* properties of the leaf branch of calculateRecursiveElapsedChild: the
\* attributes it sets to 0
LeafProperties(ownElapsed) ==
    IF ownElapsed = 0 THEN <<"elapsed", "descendants">> ELSE <<"descendants">>

\* calculateRecursiveElapsedChild: ownElapsed, the choice of the leaf branch,
\* and with recursive = false the stored totals of the children
RecursiveElapsedChildEnter(t) ==
    /\ Running(t, "calculateRecursiveElapsedChild", "enter")
    /\ LET file == Top(t).file
           ownElapsed == GetProperty(fm, file, "elapsed")
           leafNote == Len(links[file]) = 0
       IN  stack' = [stack EXCEPT ![t] = SetTop(@,
              IF leafNote
              THEN [Top(t) EXCEPT !.pc = "leaf", !.own = ownElapsed, !.i = 1]
              ELSE IF Top(t).recursive
              THEN [Top(t) EXCEPT !.pc = "links", !.own = ownElapsed,
                                  !.i = 1, !.total = 0]
              ELSE [Top(t) EXCEPT !.pc = "links", !.own = ownElapsed,
                                  !.i = Len(links[file]) + 1,
                                  !.total = StoredChildTotals(fm, file, 1)])]
    /\ UNCHANGED <<Env, Sched, Text, fired, reads, fm, visited, last>>

\* calculateRecursiveElapsedChild, the leaf branch: one updateProperty per
\* round, and the return of ownElapsed after the last
RecursiveElapsedChildLeaf(t) ==
    /\ Running(t, "calculateRecursiveElapsedChild", "leaf")
    /\ LET f == Top(t)
           properties == LeafProperties(f.own)
       IN  IF f.i <= Len(properties)
           THEN /\ HasRead(t, f.file)
                /\ fm' = UpdateProperty(AsRead(t), f.file, properties[f.i], 0)
                /\ reads' = [reads EXCEPT ![t] = NoRead]
                /\ stack' = [stack EXCEPT ![t] = SetTop(@, [f EXCEPT !.i = @ + 1])]
           ELSE /\ stack' = [stack EXCEPT ![t] = ReturnTotal(@, f.own)]
                /\ UNCHANGED <<fm, reads>>
    /\ UNCHANGED <<Env, Sched, Text, fired, visited, last>>

\* calculateRecursiveElapsedChild: the loop over childNotes with recursive =
\* true, and after the loop the write of descendants
RecursiveElapsedChildLinks(t) ==
    /\ Running(t, "calculateRecursiveElapsedChild", "links")
    /\ LET j == NextResolved(Top(t).file, Top(t).i)
       IN  IF j = 0
           THEN /\ HasRead(t, Top(t).file)
                /\ fm' = UpdateProperty(AsRead(t), Top(t).file, "descendants",
                                        Top(t).total)
                /\ reads' = [reads EXCEPT ![t] = NoRead]
                /\ stack' = [stack EXCEPT ![t] =
                      ReturnTotal(@, ChildTotal(Top(t).own, Top(t).total))]
           ELSE /\ Len(stack[t]) < MaxDepth
                /\ stack' = [stack EXCEPT ![t] =
                      Append(SetTop(@, [Top(t) EXCEPT !.i = j + 1]),
                             Frame("calculateRecursiveElapsedChild",
                                   ChildFile(Top(t).file, j), "enter"))]
                /\ UNCHANGED <<fm, reads>>
    /\ UNCHANGED <<Env, Sched, Text, fired, visited, last>>

\* On a cycle of parents the stored totals can grow with every hop: a hop is
\* taken only while they are within MaxWalkTotal.
WithinMaxWalkTotal == \A d \in Docs : GetProperty(fm, d, "descendants") <= MaxWalkTotal

\* communicateAscendants: getParentFile, then the non-recursive recompute of
\* the parent, or the return when there is no parent
CommunicateAscendants(t) ==
    /\ Running(t, "communicateAscendants", "start")
    /\ WithinMaxWalkTotal
    /\ LET parent == GetParentFile(Top(t).file)
       IN  IF parent # NoDoc
           THEN stack' = [stack EXCEPT ![t] =
                   Append(SetTop(@, [Top(t) EXCEPT !.pc = "ascend", !.parent = parent]),
                          [Frame("calculateRecursiveElapsedChild", parent, "enter")
                              EXCEPT !.recursive = FALSE])]
           ELSE stack' = [stack EXCEPT ![t] =
                   SetTop(@, [Top(t) EXCEPT !.pc = "return", !.parent = NoDoc])]
    /\ UNCHANGED <<Env, Sched, Text, fired, reads, fm, visited, last>>

\* communicateAscendants(parent): the call is the last statement, and the
\* frame of the caller is replaced
CommunicateAscendantsParent(t) ==
    /\ Running(t, "communicateAscendants", "ascend")
    /\ stack' = [stack EXCEPT ![t] =
          SetTop(@, Frame("communicateAscendants", Top(t).parent, "start"))]
    /\ UNCHANGED <<Env, Sched, Text, fired, reads, fm, visited, last>>

CommunicateAscendantsReturn(t) ==
    /\ Running(t, "communicateAscendants", "return")
    /\ stack' = [stack EXCEPT ![t] = Pop(@)]
    /\ UNCHANGED <<Env, Sched, Text, fired, reads, fm, visited, last>>

\* Faulty variant: no visited check.
NeverVisited(vs, file) == FALSE

\* visited.has(file.path) at the head of gatherDescendantFiles
AlreadyVisited(vs, file) == file \in vs

\* gatherDescendantFiles: the visited check
GatherDescendantFilesEnter(t) ==
    /\ Running(t, "gatherDescendantFiles", "enter")
    /\ IF AlreadyVisited(visited[t], Top(t).file)
       THEN /\ stack' = [stack EXCEPT ![t] = ReturnFiles(@, <<>>)]
            /\ UNCHANGED visited
       ELSE /\ visited' = [visited EXCEPT ![t] = @ \cup {Top(t).file}]
            /\ stack' = [stack EXCEPT ![t] =
                  SetTop(@, [Top(t) EXCEPT !.pc = "links", !.i = 1, !.files = <<>>])]
    /\ UNCHANGED <<Env, Sched, Text, fired, reads, fm, last>>

\* gatherDescendantFiles: the loop over fileCache.links
GatherDescendantFilesLinks(t) ==
    /\ Running(t, "gatherDescendantFiles", "links")
    /\ LET j == NextGathered(Top(t).file, Top(t).i)
       IN  IF j = 0
           THEN stack' = [stack EXCEPT ![t] = ReturnFiles(@, Top(t).files)]
           ELSE /\ Len(stack[t]) < MaxDepth
                /\ stack' = [stack EXCEPT ![t] =
                      Append(SetTop(@, [Top(t) EXCEPT !.i = j + 1,
                                   !.files = Append(@, ChildFile(Top(t).file, j))]),
                             Frame("gatherDescendantFiles",
                                   ChildFile(Top(t).file, j), "enter"))]
    /\ UNCHANGED <<Env, Sched, Text, fired, reads, fm, visited, last>>

\* updateNodeSizeFromFile: the loop that reads acc of every file
UpdateNodeSizeRead(t) ==
    /\ Running(t, "updateNodeSizeFromFile", "read")
    /\ stack' = [stack EXCEPT ![t] = SetTop(@,
          [Top(t) EXCEPT !.pc = "write", !.i = 1, !.acc = AccValues(fm, Top(t).files)])]
    /\ UNCHANGED <<Env, Sched, Text, fired, reads, fm, visited, last>>

\* updateNodeSizeFromFile: one round of the loop that writes node_size, and
\* the return after the last
UpdateNodeSizeWrite(t) ==
    /\ Running(t, "updateNodeSizeFromFile", "write")
    /\ LET f == Top(t)
           accNumbers == AccNumbers(f.acc)
       IN  IF f.i <= Len(f.files)
           THEN /\ HasRead(t, f.files[f.i])
                /\ fm' = UpdateProperty(AsRead(t), f.files[f.i], "node_size",
                            NodeSize(f.acc[f.i], MinAcc(accNumbers), MaxAcc(accNumbers)))
                /\ reads' = [reads EXCEPT ![t] = NoRead]
                /\ stack' = [stack EXCEPT ![t] = SetTop(@, [f EXCEPT !.i = @ + 1])]
           ELSE /\ stack' = [stack EXCEPT ![t] = Pop(@)]
                /\ UNCHANGED <<fm, reads>>
    /\ UNCHANGED <<Env, Sched, Text, fired, visited, last>>

\* The note whose updateProperty the running function of t calls next, NoDoc
\* when its next step is no updateProperty.
WillUpdate(t) ==
    LET f == Top(t)
    IN  CASE f.fn = "elapsedTime" /\ f.pc = "write" -> f.file
          [] f.fn = "calculateRecursiveElapsedTime" /\ f.pc = "enter" -> f.file
          [] f.fn = "calculateRecursiveElapsedChild" /\ f.pc = "leaf"
             /\ f.i <= Len(LeafProperties(f.own)) -> f.file
          [] f.fn = "calculateRecursiveElapsedChild" /\ f.pc = "links"
             /\ NextResolved(f.file, f.i) = 0 -> f.file
          [] f.fn = "updateNodeSizeFromFile" /\ f.pc = "write"
             /\ f.i <= Len(f.files) -> f.files[f.i]
          [] OTHER -> NoDoc

\* updateProperty: content = await this.app.vault.read(file)
UpdatePropertyRead(t) ==
    /\ ~Idle(t)
    /\ reads[t] = NoRead
    /\ WillUpdate(t) # NoDoc
    /\ reads' = [reads EXCEPT ![t] =
          [file |-> WillUpdate(t), content |-> fm[WillUpdate(t)]]]
    /\ UNCHANGED <<Env, Sched, Text, fired, fm, stack, visited, last>>

(***************************************************************************)
(* Initial states: vaults, tracker data and settings the plugin can find.  *)
(***************************************************************************)
NoLinks == [d \in Docs |-> <<>>]

\* Every link graph with at most k links, each a pair <<s, t>> of E.
RECURSIVE GraphsUpTo(_, _)
GraphsUpTo(k, E) ==
    IF k = 0 THEN {NoLinks}
    ELSE LET G == GraphsUpTo(k - 1, E)
         IN  G \cup {[g EXCEPT ![e[1]] = Append(@, e[2])] : g \in G, e \in E}

\* Acyclic graphs: a link goes to a later note of DocOrder, or nowhere.
Forward == {e \in Docs \X (Docs \cup {NoDoc}) : e[2] = NoDoc \/ Rank(e[1]) < Rank(e[2])}
\* Any graph of resolved links, cycles and self links included.
Resolved == Docs \X Docs

\* The scenario of the specification: R -> {A, B}, A -> {C}.
ScenarioLinks == [R |-> <<"A", "B">>, A |-> <<"C">>, B |-> <<>>, C |-> <<>>]
ScenarioTrackers == [R |-> <<>>, A |-> <<5>>, B |-> <<3>>, C |-> <<2>>]
\* C is linked from R, A and B; and a diamond R -> {A, C}, A -> {C}.
FanInLinks == [R |-> <<"C">>, A |-> <<"C">>, B |-> <<"C">>, C |-> <<>>]
DiamondLinks == [R |-> <<"A", "C">>, A |-> <<"C">>, B |-> <<>>, C |-> <<>>]

DefaultCtime == [d \in Docs |-> 1]
EmptyFm == [d \in Docs |-> <<>>]

\* defaultSettings, with the root note set and no root folder filter
defaultSettings ==
    [onlyFirstTracker |-> FALSE, rootNotePath |-> "", RootFolderPath |-> <<"/">>,
     considerSubdirs |-> FALSE, computeIntervalMinutes |-> 0]
BaseSettings == [defaultSettings EXCEPT !.rootNotePath = "R", !.RootFolderPath = <<>>]

SessionLists(n) ==
    UNION {[1..k -> 0..MaxDur] : k \in 0..n}
RootFolders == {<<>>, <<"/">>, <<"T">>}

InitCommon ==
    /\ malformed = {}
    /\ stack = [t \in Tasks |-> <<>>]
    /\ visited = [t \in Tasks |-> {}]
    /\ last = [op |-> "none", fm |-> fm]
    /\ reads = [t \in Tasks |-> NoRead]
    /\ fired = FALSE

\* No periodic recompute (computeIntervalMinutes is 0), and nothing done on
\* the text of the note.
InitQuiet ==
    /\ computeIntervalHandle = 0
    /\ intervals = {}
    /\ scheduling = 0
    /\ unloaded = FALSE
    /\ content = <<>>
    /\ attempt = [before |-> <<>>, key |-> "none", value |-> 0]

\* Link graphs of every shape, with the scenario's durations.
InitGraphs(E) ==
    /\ links \in GraphsUpTo(MaxLinks, E)
    /\ trackers = ScenarioTrackers
    /\ ctime = DefaultCtime
    /\ settings = BaseSettings
    /\ activeFile \in {"B", "C"}
    /\ fm = EmptyFm

\* The scenario graph with every choice of durations, over front matter that
\* holds attributes of an earlier state of the vault.
InitDurations ==
    /\ links = ScenarioLinks
    /\ trackers \in [Docs -> SessionLists(1)]
    /\ ctime = DefaultCtime
    /\ settings = BaseSettings
    /\ activeFile = "C"
    /\ fm \in {EmptyFm, [d \in Docs |-> [elapsed |-> 1, descendants |-> 1]]}

\* Several sessions in one note, and the onlyFirstTracker setting.
InitSessions ==
    /\ links = ScenarioLinks
    /\ \E s \in SessionLists(MaxTrackers) : trackers = [ScenarioTrackers EXCEPT !["C"] = s]
    /\ ctime = DefaultCtime
    /\ \E b \in BOOLEAN : settings = [BaseSettings EXCEPT !.onlyFirstTracker = b]
    /\ activeFile = "C"
    /\ fm = EmptyFm

\* Notes with several backlink sources, creation times with ties, and every
\* root folder setting.
InitParents ==
    /\ links \in {FanInLinks, DiamondLinks, ScenarioLinks}
    /\ trackers = ScenarioTrackers
    /\ ctime \in [Docs -> 1..MaxCtime]
    /\ \E f \in RootFolders, b \in BOOLEAN :
          settings = [BaseSettings EXCEPT !.RootFolderPath = f, !.considerSubdirs = b]
    /\ activeFile = "C"
    /\ fm = EmptyFm

\* The root note not configured, missing, or another note.
InitRoots ==
    /\ links = ScenarioLinks
    /\ trackers = ScenarioTrackers
    /\ ctime = DefaultCtime
    /\ \E r \in {"", "ghost", "A"} : settings = [BaseSettings EXCEPT !.rootNotePath = r]
    /\ activeFile \in Docs \cup {NoDoc}
    /\ fm = EmptyFm

Init ==
    /\ \/ InitGraphs(Forward)
       \/ InitDurations
       \/ InitSessions
       \/ InitParents
       \/ InitRoots
    /\ InitCommon
    /\ InitQuiet

\* The continuations of the functions a task is running.
Continue(t) ==
    \/ ComputeTimeTreeChild(t)
    \/ ComputeTimeTreeSize(t)
    \/ ComputeTimeTreeDone(t)
    \/ ElapsedTimeWrite(t)
    \/ ElapsedTimeSize(t)
    \/ ElapsedTimeDone(t)
    \/ RecursiveElapsedTimeEnter(t)
    \/ RecursiveElapsedTimeLinks(t)
    \/ RecursiveElapsedChildEnter(t)
    \/ RecursiveElapsedChildLeaf(t)
    \/ RecursiveElapsedChildLinks(t)
    \/ CommunicateAscendants(t)
    \/ CommunicateAscendantsParent(t)
    \/ CommunicateAscendantsReturn(t)
    \/ GatherDescendantFilesEnter(t)
    \/ GatherDescendantFilesLinks(t)
    \/ UpdateNodeSizeRead(t)
    \/ UpdateNodeSizeWrite(t)
    \/ UpdatePropertyRead(t)

\* A task: the two commands, and what they go on to do.
Step(t) ==
    \/ ComputeTimeTree(t)
    \/ ElapsedTime(t)
    \/ Continue(t)

\* One command at a time, no periodic recompute.
Next == Step("user")

Spec == Init /\ [][Next]_vars

(***************************************************************************)
(* The periodic recompute (main.ts: saveSettings, scheduleComputeTimeTree). *)
(***************************************************************************)
\* The options of the Compute Interval dropdown (0 is Off), the first three.
IntervalOptions == {0, 1, 15}

\* Faulty variant: the running timer is left alone.
ClearNothing(handle, timers) == timers

\* if (this.computeIntervalHandle) clearInterval(this.computeIntervalHandle)
ClearInterval(handle, timers) == IF handle # 0 THEN timers \ {handle} ELSE timers

\* A change in the settings tab: the setting is assigned, and saveSettings
\* runs up to its await of saveData; scheduleComputeTimeTree is still to come.
\* The settings tab is there while the plugin is loaded.
\* Every setting's onChange saves, so the interval may also stay what it was.
SaveSettings ==
    /\ ~unloaded
    /\ computeIntervalHandle + scheduling < MaxTimers
    /\ \E m \in IntervalOptions :
          settings' = [settings EXCEPT !.computeIntervalMinutes = m]
    /\ scheduling' = scheduling + 1
    /\ UNCHANGED <<links, trackers, ctime, malformed, activeFile, Text, fired,
                   computeIntervalHandle, intervals, unloaded, reads, fm, stack,
                   visited, last>>

\* scheduleComputeTimeTree, at the end of onload and of saveSettings.
\* setInterval returns the next timer id.
ScheduleComputeTimeTree ==
    /\ scheduling > 0
    /\ scheduling' = scheduling - 1
    /\ LET cleared == ClearInterval(computeIntervalHandle, intervals)
       IN  IF settings.computeIntervalMinutes > 0
           THEN /\ computeIntervalHandle' = computeIntervalHandle + 1
                /\ intervals' = cleared \cup {computeIntervalHandle + 1}
           ELSE /\ intervals' = cleared
                /\ UNCHANGED computeIntervalHandle
    /\ UNCHANGED <<Env, Text, fired, unloaded, reads, fm, stack, visited, last>>

\* The callback of an active timer: async () => { await this.computeTimeTree(); }
\* A firing is modelled once the timer's previous computeTimeTree has ended.
TimerFire ==
    /\ intervals # {}
    /\ ComputeTimeTree("timer")

\* What computeTimeTree goes on to do after its first await.
Recompute(t) ==
    \/ ComputeTimeTreeChild(t)
    \/ ComputeTimeTreeSize(t)
    \/ ComputeTimeTreeDone(t)
    \/ RecursiveElapsedTimeEnter(t)
    \/ RecursiveElapsedTimeLinks(t)
    \/ RecursiveElapsedChildEnter(t)
    \/ RecursiveElapsedChildLeaf(t)
    \/ RecursiveElapsedChildLinks(t)
    \/ GatherDescendantFilesEnter(t)
    \/ GatherDescendantFilesLinks(t)
    \/ UpdateNodeSizeRead(t)
    \/ UpdateNodeSizeWrite(t)
    \/ UpdatePropertyRead(t)

\* The plugin after loadSettings, with the scheduleComputeTimeTree of onload
\* still to run.
TimerInit ==
    /\ links = ScenarioLinks
    /\ trackers = ScenarioTrackers
    /\ ctime = DefaultCtime
    /\ \E m \in IntervalOptions :
          settings = [BaseSettings EXCEPT !.computeIntervalMinutes = m]
    /\ activeFile = NoDoc
    /\ fm = EmptyFm
    /\ InitCommon
    /\ computeIntervalHandle = 0
    /\ intervals = {}
    /\ scheduling = 1
    /\ unloaded = FALSE
    /\ content = <<>>
    /\ attempt = [before |-> <<>>, key |-> "none", value |-> 0]

TimerNext ==
    \/ SaveSettings
    \/ ScheduleComputeTimeTree
    \/ TimerFire
    \/ Recompute("timer")

TimerSpec == TimerInit /\ [][TimerNext]_vars

(***************************************************************************)
(* The plugin is disabled (main.ts: onunload).                             *)
(***************************************************************************)
\* onunload: the timer of the handle is cleared; the handle stays what it was.
\* A scheduleComputeTimeTree that onload or a saveSettings has still to run
\* stays pending: it follows an await, and nothing cancels it.
OnUnload ==
    /\ ~unloaded
    /\ unloaded' = TRUE
    /\ intervals' = ClearInterval(computeIntervalHandle, intervals)
    /\ UNCHANGED <<Env, Text, fired, computeIntervalHandle, scheduling, reads,
                   fm, stack, visited, last>>

UnloadNext ==
    \/ SaveSettings
    \/ ScheduleComputeTimeTree
    \/ OnUnload
    \/ TimerFire
    \/ Recompute("timer")

UnloadSpec == TimerInit /\ [][UnloadNext]_vars

(***************************************************************************)
(* elapsedTime on vaults where the parents of a note may form a cycle.     *)
(***************************************************************************)
\* What elapsedTime goes on to do after the timeout.
Update(t) ==
    \/ ElapsedTimeWrite(t)
    \/ ElapsedTimeSize(t)
    \/ ElapsedTimeDone(t)
    \/ RecursiveElapsedChildEnter(t)
    \/ RecursiveElapsedChildLinks(t)
    \/ CommunicateAscendants(t)
    \/ CommunicateAscendantsParent(t)
    \/ CommunicateAscendantsReturn(t)
    \/ GatherDescendantFilesEnter(t)
    \/ GatherDescendantFilesLinks(t)
    \/ UpdateNodeSizeRead(t)
    \/ UpdateNodeSizeWrite(t)
    \/ UpdatePropertyRead(t)

AscendInit ==
    /\ links \in GraphsUpTo(MaxWalkLinks, Resolved)
    /\ trackers = ScenarioTrackers
    /\ ctime = DefaultCtime
    /\ settings = BaseSettings
    /\ activeFile \in {"B", "C"}
    /\ fm = EmptyFm
    /\ InitCommon
    /\ InitQuiet

AscendNext ==
    \/ ElapsedTime("user")
    \/ Update("user")

\* The event loop runs every continuation that is ready.
AscendSpec == AscendInit /\ [][AscendNext]_vars /\ WF_vars(AscendNext)

(***************************************************************************)
(* A command of the user while the periodic recompute runs.                *)
(***************************************************************************)
\* R -> {A}, the active note is A, and the timer of a 1 minute interval is
\* active.
OverlapInit ==
    /\ links = [NoLinks EXCEPT !["R"] = <<"A">>]
    /\ trackers = ScenarioTrackers
    /\ ctime = DefaultCtime
    /\ settings = [BaseSettings EXCEPT !.computeIntervalMinutes = 1]
    /\ activeFile = "A"
    /\ fm = EmptyFm
    /\ InitCommon
    /\ computeIntervalHandle = 1
    /\ intervals = {1}
    /\ scheduling = 0
    /\ unloaded = FALSE
    /\ content = <<>>
    /\ attempt = [before |-> <<>>, key |-> "none", value |-> 0]

\* The continuations of the two tasks are taken in any order: every await
\* gives way to the other task.
OverlapNext ==
    \/ Step("user")
    \/ TimerFire
    \/ Recompute("timer")

OverlapSpec == OverlapInit /\ [][OverlapNext]_vars

(***************************************************************************)
(* The full recompute on a vault with a note whose front matter does not   *)
(* parse.                                                                  *)
(***************************************************************************)
FaultInit ==
    /\ links \in {ScenarioLinks, DiamondLinks, FanInLinks}
    /\ trackers = ScenarioTrackers
    /\ ctime = DefaultCtime
    /\ settings = BaseSettings
    /\ activeFile = NoDoc
    /\ fm \in {EmptyFm, [d \in Docs |-> [elapsed |-> 1, descendants |-> 1]]}
    /\ \E m \in Docs : malformed = {m}
    /\ stack = [t \in Tasks |-> <<>>]
    /\ visited = [t \in Tasks |-> {}]
    /\ last = [op |-> "none", fm |-> fm]
    /\ reads = [t \in Tasks |-> NoRead]
    /\ fired = FALSE
    /\ InitQuiet

FaultNext ==
    \/ ComputeTimeTree("user")
    \/ Recompute("user")

FaultSpec == FaultInit /\ [][FaultNext]_vars

(***************************************************************************)
(* The commands, with the user taking links out of notes between them.     *)
(***************************************************************************)
\* The user deletes the links of a note; the metadata cache follows.
RemoveLinks ==
    /\ Idle("user")
    /\ \E d \in Docs :
          /\ links[d] # <<>>
          /\ links' = [links EXCEPT ![d] = <<>>]
    /\ UNCHANGED <<trackers, ctime, malformed, settings, activeFile, Sched, Text,
                   fired, reads, fm, stack, visited, last>>

EditInit ==
    /\ links = ScenarioLinks
    /\ trackers = ScenarioTrackers
    /\ ctime = DefaultCtime
    /\ settings = BaseSettings
    /\ activeFile \in {"B", "C"}
    /\ fm = EmptyFm
    /\ InitCommon
    /\ InitQuiet

EditNext ==
    \/ Step("user")
    \/ RemoveLinks

EditSpec == EditInit /\ [][EditNext]_vars

(***************************************************************************)
(* updateProperty on the text of a note.                                   *)
(***************************************************************************)
\* A call of updateProperty that sets one of the plugin's attributes
UpdatePropertyOnText ==
    /\ \E k \in Keys, v \in 0..1 :
          /\ attempt' = [before |-> content, key |-> k, value |-> v]
          /\ content' = UpdatePropertyContent(content, k, v)
    /\ UNCHANGED <<Env, Sched, fired, reads, fm, stack, visited, last>>

SeqsUpTo(S, n) == UNION {[1..k -> S] : k \in 0..n}

\* Notes with a front matter block (an attribute of the plugin, one of the
\* user, a comment, a line that does not parse), closed by --- or by a line
\* that goes on after it, and notes without one.
YamlLines == {KV("elapsed", 1), KV("title", 1), Comment, Bad}
BodyLines == {TextLine, Empty, Dashes}
TextContents ==
    {<<Dashes>> \o y \o <<c>> \o b :
        y \in SeqsUpTo(YamlLines, MaxYamlLines),
        c \in {Dashes, DashesMore},
        b \in SeqsUpTo(BodyLines, MaxBodyLines)}
    \cup (SeqsUpTo(BodyLines \cup {DashesMore}, MaxBodyLines) \ {<<>>})

TextInit ==
    /\ links = ScenarioLinks
    /\ trackers = ScenarioTrackers
    /\ ctime = DefaultCtime
    /\ settings = BaseSettings
    /\ activeFile = NoDoc
    /\ fm = EmptyFm
    /\ InitCommon
    /\ computeIntervalHandle = 0
    /\ intervals = {}
    /\ scheduling = 0
    /\ unloaded = FALSE
    /\ content \in TextContents
    /\ attempt = [before |-> content, key |-> "none", value |-> 0]

TextSpec == TextInit /\ [][UpdatePropertyOnText]_vars

(***************************************************************************)
(* Vocabulary of the properties.                                           *)
(***************************************************************************)
\* The stored value of an attribute, 0 when the note does not have it.
Stored(d, k) == IF k \in DOMAIN fm[d] THEN fm[d][k] ELSE 0
Has(d, k) == k \in DOMAIN fm[d]

\* The resolved children of a note, and the notes reachable from a note.
Children(d) == {links[d][j] : j \in 1..Len(links[d])} \ {NoDoc}
RECURSIVE Closure(_)
Closure(S) ==
    LET N == S \cup UNION {Children(d) : d \in S}
    IN  IF N = S THEN S ELSE Closure(N)
Reachable(d) == Closure({d})

\* The sum, over the links of d that resolve, of the stored elapsed +
\* descendants of the target (a child linked twice counts twice).
ChildrenSum(d) ==
    SumSeq([j \in 1..Len(links[d]) |->
               IF links[d][j] = NoDoc THEN 0
               ELSE Stored(links[d][j], "elapsed") + Stored(links[d][j], "descendants")])

\* The user's computeTimeTree has finished both recursive passes.
AfterRecompute ==
    /\ stack["user"] # <<>>
    /\ stack["user"][1].fn = "computeTimeTree"
    /\ \/ stack["user"][1].pc = "done"
       \/ stack["user"][1].pc = "size" /\ Len(stack["user"]) = 1

\* The user's computeTimeTree is about to return.
RecomputeDone == Running("user", "computeTimeTree", "done")

(***************************************************************************)
(* C1.  After a full recompute from the root on an acyclic link graph,     *)
(* every reachable note that has links stores in descendants the sum, over *)
(* its resolved children, of their stored elapsed + descendants.           *)
(***************************************************************************)
C1_AggregateSum ==
    AfterRecompute =>
        \A d \in Reachable(RootFile) :
            Len(links[d]) > 0 =>
                Has(d, "descendants") /\ fm[d]["descendants"] = ChildrenSum(d)

\* The scenario R -> {A, B}, A -> {C} with elapsed R=0, A=5, B=3, C=2.
C1_Witness ==
    /\ AfterRecompute
    /\ links = ScenarioLinks /\ trackers = ScenarioTrackers /\ RootFile = "R"
    /\ Stored("A", "elapsed") = 5 /\ Stored("B", "elapsed") = 3
    /\ Stored("C", "elapsed") = 2
    /\ Has("C", "descendants") /\ fm["C"]["descendants"] = 0
    /\ Has("B", "descendants") /\ fm["B"]["descendants"] = 0
    /\ Has("A", "descendants") /\ fm["A"]["descendants"] = 2
    /\ Has("R", "descendants") /\ fm["R"]["descendants"] = 10

(***************************************************************************)
(* C2.  As claimed: after a full recompute a reachable note with no        *)
(* resolvable link has descendants 0, and keeps the elapsed it had before  *)
(* the recompute when that was not 0.                                      *)
(***************************************************************************)
C2_LeafKeepsElapsed ==
    AfterRecompute =>
        \A d \in Reachable(RootFile) :
            Children(d) = {} =>
                /\ Stored(d, "descendants") = 0
                /\ GetProperty(last.fm, d, "elapsed") # 0 =>
                       Stored(d, "elapsed") = GetProperty(last.fm, d, "elapsed")

(***************************************************************************)
(* C2, amended.  After a full recompute a reachable note with no           *)
(* resolvable link has descendants 0 and its elapsed is the duration the   *)
(* tracker data gives for it, whatever it stored before.                   *)
(***************************************************************************)
C2_LeafConsistency ==
    AfterRecompute =>
        \A d \in Reachable(RootFile) :
            Children(d) = {} =>
                /\ Has(d, "descendants") /\ fm[d]["descendants"] = 0
                /\ Has(d, "elapsed") /\ fm[d]["elapsed"] = CalculateElapsedTime(d)

\* A leaf that stored a nonzero elapsed before the recompute and has a
\* nonzero, different one after it.
C2_Witness ==
    /\ AfterRecompute
    /\ \E d \in Reachable(RootFile) :
          /\ Children(d) = {}
          /\ GetProperty(last.fm, d, "elapsed") # 0
          /\ Stored(d, "elapsed") # 0
          /\ Stored(d, "elapsed") # GetProperty(last.fm, d, "elapsed")
          /\ Has(d, "descendants")

(***************************************************************************)
(* C3.  A computeTimeTree that runs right after a computeTimeTree, nothing *)
(* changed in between, ends with the front matter of every note (elapsed,  *)
(* descendants, node_size) as the first run left it.                       *)
(***************************************************************************)
C3_Idempotent ==
    (RecomputeDone /\ last.op = "computeTimeTree") => fm = last.fm

C3_Witness ==
    /\ RecomputeDone /\ last.op = "computeTimeTree"
    /\ links = ScenarioLinks
    /\ \A d \in Docs : Has(d, "node_size") /\ Has(d, "elapsed") /\ Has(d, "descendants")
    /\ Stored("R", "descendants") = 10

(***************************************************************************)
(* C4.  gatherDescendantFiles terminates on every link graph, cycles and   *)
(* diamonds included: whenever a call of it is running, later none is.     *)
(* Checked where every continuation that can run does run (the event loop  *)
(* runs every resolved promise).                                           *)
(***************************************************************************)
GatherRunning ==
    \E k \in 1..Len(stack["user"]) : stack["user"][k].fn = "gatherDescendantFiles"

C4_GatherTerminates == GatherRunning ~> ~GatherRunning

OnCycle(d) == d \in Closure(Children(d))

\* The call has returned to updateNodeSizeFromFile on a graph with a cycle
\* that the call went through.
C4_Witness ==
    /\ Running("user", "updateNodeSizeFromFile", "read")
    /\ \E d \in visited["user"] : OnCycle(d)

\* The notes from d up its chain of parents, n steps at most, end at a note
\* without a parent.
RECURSIVE ParentChainEnds(_, _)
ParentChainEnds(d, n) ==
    IF d = NoDoc THEN TRUE
    ELSE IF n = 0 THEN FALSE
    ELSE ParentChainEnds(GetParentFile(d), n - 1)

\* Graphs with cycles and self links.  The active note is one whose chain of
\* parents ends, so that elapsedTime gets past communicateAscendants and
\* calls updateNodeSizeFromFile on the root note.
LiveInit ==
    /\ InitGraphs(Resolved)
    /\ InitCommon
    /\ InitQuiet
    /\ ParentChainEnds(activeFile, Cardinality(Docs))
LiveSpec == LiveInit /\ [][Next]_vars /\ WF_vars(Next)

(***************************************************************************)
(* C5.  As claimed: in the list updateNodeSizeFromFile works on, the root  *)
(* followed by what gatherDescendantFiles(root) returned, every note       *)
(* appears exactly once (here only where no note links the same note       *)
(* twice).                                                                 *)
(***************************************************************************)
NoDuplicates(fs) == \A a, b \in 1..Len(fs) : fs[a] = fs[b] => a = b

C5_ExactlyOnce ==
    /\ Running("user", "updateNodeSizeFromFile", "read")
    /\ \A d \in Docs : NoDuplicates(links[d])
    => NoDuplicates(Top("user").files)

(***************************************************************************)
(* C6.  Every node_size that updateNodeSizeFromFile writes lies in         *)
(* [6, 100] (its square, the area, in [36, 10000]); elapsed and            *)
(* descendants are never negative here.                                    *)
(***************************************************************************)
C6_SizeBounds ==
    \A d \in Docs :
        Has(d, "node_size") =>
            /\ 36 * fm[d]["node_size"].den <= fm[d]["node_size"].num
            /\ fm[d]["node_size"].num <= 10000 * fm[d]["node_size"].den

\* A size strictly inside the range, next to a note with the largest size.
C6_Witness ==
    /\ \A d \in Docs : Stored(d, "elapsed") >= 0 /\ Stored(d, "descendants") >= 0
    /\ \E d, e \in Docs :
          /\ Has(d, "node_size") /\ Has(e, "node_size")
          /\ 36 * fm[d]["node_size"].den < fm[d]["node_size"].num
          /\ fm[d]["node_size"].num < 10000 * fm[d]["node_size"].den
          /\ fm[e]["node_size"] = [num |-> 10000, den |-> 1]

(***************************************************************************)
(* C7.  When the collected notes do not all have the same acc = elapsed +  *)
(* descendants, updateNodeSizeFromFile leaves exactly 100 on every note    *)
(* whose acc is the maximum and exactly 6 on every note whose acc is the   *)
(* minimum.                                                                *)
(***************************************************************************)
\* updateNodeSizeFromFile has written the size of its last file.
SizesWritten ==
    /\ Running("user", "updateNodeSizeFromFile", "write")
    /\ Top("user").i > Len(Top("user").files)
Collected == {Top("user").files[k] : k \in 1..Len(Top("user").files)}
Acc(d) == Stored(d, "elapsed") + Stored(d, "descendants")

C7_ExtremesExact ==
    SizesWritten =>
        LET lo == CHOOSE m \in {Acc(d) : d \in Collected} : \A d \in Collected : m <= Acc(d)
            hi == CHOOSE m \in {Acc(d) : d \in Collected} : \A d \in Collected : m >= Acc(d)
        IN  lo # hi =>
                \A d \in Collected :
                    /\ Acc(d) = hi => fm[d]["node_size"] = [num |-> 10000, den |-> 1]
                    /\ Acc(d) = lo => fm[d]["node_size"] = [num |-> 36, den |-> 1]

\* The scenario: acc R=10, A=7, B=3, C=2, node_size(R) = 100, node_size(C) = 6.
C7_Witness ==
    /\ SizesWritten
    /\ Collected = Docs
    /\ Acc("R") = 10 /\ Acc("A") = 7 /\ Acc("B") = 3 /\ Acc("C") = 2
    /\ fm["R"]["node_size"] = [num |-> 10000, den |-> 1]
    /\ fm["C"]["node_size"] = [num |-> 36, den |-> 1]

(***************************************************************************)
(* C8.  When every collected note has acc 0, updateNodeSizeFromFile leaves *)
(* node_size 6 on all of them; when all have the same acc and it is not 0, *)
(* it leaves 100 on all of them.                                           *)
(***************************************************************************)
C8_Degenerate ==
    SizesWritten =>
        /\ (\A d \in Collected : Acc(d) = 0) =>
               \A d \in Collected : fm[d]["node_size"] = [num |-> 36, den |-> 1]
        /\ (\E e \in Collected : Acc(e) # 0 /\ \A d \in Collected : Acc(d) = Acc(e)) =>
               \A d \in Collected : fm[d]["node_size"] = [num |-> 10000, den |-> 1]

\* Several notes, all with the same acc, not 0.
C8_Witness ==
    /\ SizesWritten
    /\ Cardinality(Collected) > 1
    /\ \A d, e \in Collected : Acc(d) = Acc(e) /\ Acc(d) > 0
    /\ \A d \in Collected : fm[d]["node_size"] = [num |-> 10000, den |-> 1]

(***************************************************************************)
(* C9.  As claimed: after elapsedTime on a note L reachable from the root  *)
(* note, every ancestor of L (every note from which L is reachable through *)
(* resolved links; here only those between the root note and L, and only  *)
(* with no root folder configured) has descendants equal to the sum of its *)
(* resolved children's stored elapsed + descendants.                       *)
(***************************************************************************)
ElapsedTimeDoneHere == Running("user", "elapsedTime", "done")

C9_EveryAncestor ==
    /\ ElapsedTimeDoneHere
    /\ settings.RootFolderPath = <<>>
    /\ RootFile # NoDoc
    /\ activeFile \in Reachable(RootFile)
    => \A P \in Reachable(RootFile) \ {activeFile} :
           activeFile \in Closure(Children(P)) =>
               Stored(P, "descendants") = ChildrenSum(P)

(***************************************************************************)
(* C9, amended.  After elapsedTime on a note L, every note on L's chain of *)
(* canonical parents (getParentFile of L, of that parent, and so on until  *)
(* none resolves) has a stored descendants equal to the sum of its         *)
(* resolved children's stored elapsed + descendants; and the call that     *)
(* rewrites a parent is made by communicateAscendants with recursive =     *)
(* false and makes no further call of its own.  On acyclic link graphs.    *)
(***************************************************************************)
RECURSIVE ParentChain(_, _)
ParentChain(d, n) ==
    IF n = 0 \/ GetParentFile(d) = NoDoc THEN {}
    ELSE {GetParentFile(d)} \cup ParentChain(GetParentFile(d), n - 1)

Acyclic == \A d \in Docs : ~OnCycle(d)

C9_ParentChain ==
    Acyclic =>
        /\ ElapsedTimeDoneHere =>
               \A P \in ParentChain(activeFile, Cardinality(Docs)) :
                   /\ Has(P, "descendants")
                   /\ Stored(P, "descendants") = ChildrenSum(P)
        /\ \A k \in 1..Len(stack["user"]) :
               (/\ stack["user"][k].fn = "calculateRecursiveElapsedChild"
                /\ ~stack["user"][k].recursive)
               => /\ k = Len(stack["user"])
                  /\ k > 1
                  /\ stack["user"][k - 1].fn = "communicateAscendants"
                  /\ stack["user"][k - 1].parent = stack["user"][k].file

\* Two hops: the parent's rewrite, then the grandparent's rewrite that reads
\* the parent's new descendants.
C9_Witness ==
    /\ ElapsedTimeDoneHere
    /\ Acyclic
    /\ \E P, Q \in Docs :
          /\ P = GetParentFile(activeFile)
          /\ Q = GetParentFile(P)
          /\ Stored(P, "descendants") > 0
          /\ Stored(Q, "descendants") > Stored(P, "descendants")
          /\ Stored(Q, "descendants") = ChildrenSum(Q)

(***************************************************************************)
(* C10.  The parent that communicateAscendants gets from getParentFile is  *)
(* none exactly when no backlink source of the note passes the scope       *)
(* filter; otherwise it is an in-scope backlink source with the least      *)
(* creation time, and of several with that time the first in the iteration *)
(* order of the backlinks.  The answer depends on the backlinks, the       *)
(* creation times and the settings only, so every call gives the same.     *)
(***************************************************************************)
InScopeSources(d) == {s \in Docs : HasLinkTo(s, d) /\ ParentInScope(s)}

IsCanonicalParent(p, d) ==
    IF InScopeSources(d) = {} THEN p = NoDoc
    ELSE /\ p \in InScopeSources(d)
         /\ \A s \in InScopeSources(d) :
               /\ ctime[p] <= ctime[s]
               /\ ctime[s] = ctime[p] => Rank(p) <= Rank(s)

C10_OldestInScope ==
    \A k \in 1..Len(stack["user"]) :
        (/\ stack["user"][k].fn = "communicateAscendants"
         /\ stack["user"][k].pc \in {"ascend", "return"})
        => IsCanonicalParent(stack["user"][k].parent, stack["user"][k].file)

\* A parent chosen among several in-scope sources of the same, least creation
\* time, with a further source out of scope.
C10_Witness ==
    /\ Running("user", "communicateAscendants", "ascend")
    /\ LET d == Top("user").file
           p == Top("user").parent
       IN  /\ \E s \in InScopeSources(d) \ {p} : ctime[s] = ctime[p]
           /\ \E s \in Docs : HasLinkTo(s, d) /\ ~ParentInScope(s)

(***************************************************************************)
(* C11.  As claimed, for the document as it is stored: after one           *)
(* updateProperty that wrote to a note with a front matter block, the      *)
(* lines of the block other than the line of the assigned key are the      *)
(* lines it had before, in their order.                                    *)
(***************************************************************************)
Attempted == attempt.key # "none"
OtherLines(c, k) == SelectSeq(c, LAMBDA l : ~(l.kind = "kv" /\ l.key = k))

C11_OnlyAssignedLineDiffers ==
    Attempted /\ YamlMatch(attempt.before) # 0 /\ content # attempt.before =>
        OtherLines(YamlText(content), attempt.key)
            = OtherLines(YamlText(attempt.before), attempt.key)

(***************************************************************************)
(* C11, amended.  After one updateProperty on a note whose front matter    *)
(* parses (or that has none), the text after the front matter block is the *)
(* text that was after it before (all of the old content, when there was   *)
(* no block), every attribute the updater did not assign has the value it  *)
(* had, the assigned attribute has the new value, and there is no other    *)
(* attribute.  The block itself is written anew: comments in it are gone   *)
(* and a line break follows its closing marker.                            *)
(***************************************************************************)
\* The attributes of a note: key -> value.
Attributes(c) ==
    LET y == IF YamlMatch(c) = 0 THEN <<>> ELSE YamlText(c)
        ks == {y[i].key : i \in {j \in 1..Len(y) : y[j].kind = "kv"}}
    IN  [k \in ks |-> (CHOOSE l \in {y[i] : i \in 1..Len(y)} :
                           l.kind = "kv" /\ l.key = k).value]

\* The text after the front matter block, as lines; an empty text is <<Empty>>.
BodyText(c) ==
    LET b == IF YamlMatch(c) = 0 THEN c
             ELSE IF c[YamlMatch(c)] = Dashes THEN SubSeq(c, YamlMatch(c) + 1, Len(c))
             ELSE <<More>> \o SubSeq(c, YamlMatch(c) + 1, Len(c))
    IN  IF b = <<>> THEN <<Empty>> ELSE b

WellFormed(c) == YamlMatch(c) = 0 \/ ~YamlThrows(YamlText(c))

C11_AttributesAndBody ==
    Attempted /\ WellFormed(attempt.before) =>
        /\ BodyText(content) = BodyText(attempt.before)
        /\ DOMAIN Attributes(content) = DOMAIN Attributes(attempt.before) \cup {attempt.key}
        /\ \A k \in DOMAIN Attributes(content) :
              Attributes(content)[k] =
                 IF k = attempt.key THEN attempt.value ELSE Attributes(attempt.before)[k]

\* A note with an attribute of the user's, a comment and a body gets a new
\* attribute.
C11_Witness ==
    /\ Attempted
    /\ attempt.before = <<Dashes, KV("title", 1), Comment, Dashes, TextLine>>
    /\ attempt.key = "elapsed"
    /\ content = <<Dashes, KV("title", 1), KV("elapsed", attempt.value), Dashes, TextLine>>

(***************************************************************************)
(* C12.  An updateProperty on a note whose front matter block does not     *)
(* parse leaves the content of the note as it was.                         *)
(***************************************************************************)
Unparseable(c) ==
    /\ YamlMatch(c) # 0
    /\ \/ \E i \in 2..(YamlMatch(c) - 1) : c[i] = Bad
       \/ \E i, j \in 2..(YamlMatch(c) - 1) :
             i # j /\ c[i].kind = "kv" /\ c[j].kind = "kv" /\ c[i].key = c[j].key

C12_MalformedUntouched ==
    Attempted /\ Unparseable(attempt.before) => content = attempt.before

C12_Witness ==
    /\ Attempted
    /\ attempt.before = <<Dashes, KV("elapsed", 1), Bad, Dashes, TextLine>>
    /\ content = attempt.before

(***************************************************************************)
(* C13.  computeTimeTree with rootNotePath empty or naming no note, and    *)
(* elapsedTime with no active note, return at once: no call of theirs is   *)
(* ever on a stack, and every write of an attribute is a step of a task    *)
(* whose command found its note.                                           *)
(***************************************************************************)
Calls(t, fn) == \E k \in 1..Len(stack[t]) : stack[t][k].fn = fn

C13_NoOp ==
    /\ [](settings.rootNotePath \notin Docs =>
            \A t \in Tasks : ~Calls(t, "computeTimeTree")
                             /\ ~Calls(t, "calculateRecursiveElapsedTime"))
    /\ [](activeFile = NoDoc => \A t \in Tasks : ~Calls(t, "elapsedTime"))
    /\ [][fm' # fm =>
            \E t \in Tasks :
                /\ stack[t] # <<>>
                /\ stack'[t] # stack[t]
                /\ \/ stack[t][1].fn = "computeTimeTree" /\ settings.rootNotePath \in Docs
                   \/ stack[t][1].fn = "elapsedTime" /\ activeFile # NoDoc]_vars

\* Both commands have run with nothing to work on, computeTimeTree last, and
\* no note has an attribute.
C13_Witness ==
    /\ settings.rootNotePath = ""
    /\ activeFile = NoDoc
    /\ last.op = "computeTimeTree"
    /\ fm = EmptyFm
    /\ \A t \in Tasks : Idle(t)

(***************************************************************************)
(* C14.  The duration elapsedTime computes for the active note, and then   *)
(* stores as its elapsed, is 0 when the note has no session, the duration  *)
(* of the first session when onlyFirstTracker is set, and the sum of the   *)
(* durations of all sessions otherwise.                                    *)
(***************************************************************************)
SessionsTotal(d) ==
    LET upTo[k \in 0..Len(trackers[d])] ==
            IF k = 0 THEN 0 ELSE upTo[k - 1] + trackers[d][k]
    IN  upTo[Len(trackers[d])]

ExpectedElapsed(d) ==
    CASE trackers[d] = <<>>        -> 0
      [] settings.onlyFirstTracker -> Head(trackers[d])
      [] OTHER                     -> SessionsTotal(d)

C14_ElapsedOfSessions ==
    \A t \in Tasks : \A k \in 1..Len(stack[t]) :
        LET f == stack[t][k] IN
        f.fn = "elapsedTime" =>
            /\ f.own = ExpectedElapsed(f.file)
            /\ f.pc # "write" => Stored(f.file, "elapsed") = ExpectedElapsed(f.file)

\* Two sessions of nonzero duration, all of them counted and stored.
C14_Witness ==
    /\ Running("user", "elapsedTime", "size")
    /\ ~settings.onlyFirstTracker
    /\ Len(trackers[activeFile]) = 2
    /\ trackers[activeFile][1] > 0
    /\ trackers[activeFile][2] > 0
    /\ Stored(activeFile, "elapsed") = trackers[activeFile][1] + trackers[activeFile][2]

(***************************************************************************)
(* C15.  Once every scheduleComputeTimeTree that onload and saveSettings   *)
(* call has run, a timer of the periodic recompute is active exactly when  *)
(* computeIntervalMinutes > 0, and there is one at most.  The periodic     *)
(* recompute fires on an active timer only, and with                       *)
(* computeIntervalMinutes = 0 only while a scheduleComputeTimeTree is      *)
(* still to run: after it, the timer that was active is cleared.           *)
(***************************************************************************)
C15_TimerIffEnabled ==
    /\ [](scheduling = 0 =>
            /\ intervals # {} <=> settings.computeIntervalMinutes > 0
            /\ Cardinality(intervals) <= 1)
    /\ [][fired' # fired =>
            /\ intervals # {}
            /\ settings.computeIntervalMinutes = 0 => scheduling > 0]_vars

\* The interval is Off and scheduled so, after a timer was active whose
\* computeTimeTree is still in progress; no timer is left.
C15_Witness ==
    /\ scheduling = 0
    /\ settings.computeIntervalMinutes = 0
    /\ computeIntervalHandle > 0
    /\ ~Idle("timer")
    /\ intervals = {}

(***************************************************************************)
(* C16.  A link with no target is skipped by the three traversals: no call *)
(* is made on a missing target and none is collected; a note with such a   *)
(* link still gets descendants written, as the sum over the links that     *)
(* resolve; and the traversals go on to its other links, so that every     *)
(* resolved child has its elapsed written and is collected.                *)
(***************************************************************************)
Dangling(d) == \E j \in 1..Len(links[d]) : links[d][j] = NoDoc

C16_UnresolvedSkipped ==
    /\ \A t \in Tasks : \A k \in 1..Len(stack[t]) :
          /\ stack[t][k].file \in Docs
          /\ \A m \in 1..Len(stack[t][k].files) : stack[t][k].files[m] \in Docs
    /\ AfterRecompute =>
          \A d \in Reachable(RootFile) :
              Dangling(d) =>
                  /\ Has(d, "descendants")
                  /\ fm[d]["descendants"] = ChildrenSum(d)
                  /\ \A c \in Children(d) : Has(c, "elapsed") /\ Has(c, "descendants")
    /\ SizesWritten /\ settings.RootFolderPath = <<>> =>
          \A d \in Collected : Children(d) \subseteq Collected

\* The root's first link has no target, its second is A, whose elapsed 5 is
\* the root's descendants; A has been sized.
C16_Witness ==
    /\ RecomputeDone
    /\ links["R"] = <<NoDoc, "A">>
    /\ Stored("R", "descendants") = 5
    /\ Has("A", "node_size")

(***************************************************************************)
(* C17.  communicateAscendants returns when, and only when, the walk has   *)
(* reached a note without canonical parent: if the chain of canonical      *)
(* parents of the note it was called on ends, the call returns; its return *)
(* is a step at a note with no canonical parent; and if the chain runs     *)
(* into a cycle, the call never returns, so that elapsedTime never gets    *)
(* past it.                                                                *)
(***************************************************************************)
CanonicalParent(d) == CHOOSE p \in Docs \cup {NoDoc} : IsCanonicalParent(p, d)

RECURSIVE WalkEnds(_, _)
WalkEnds(d, n) ==
    IF d = NoDoc THEN TRUE
    ELSE IF n = 0 THEN FALSE
    ELSE WalkEnds(CanonicalParent(d), n - 1)

CanonicalChainEnds == WalkEnds(activeFile, Cardinality(Docs))

Walking == Calls("user", "communicateAscendants")

C17_WalkTermination ==
    /\ (Walking /\ CanonicalChainEnds) ~> ~Walking
    /\ [][Walking /\ ~Walking' =>
            /\ Top("user").fn = "communicateAscendants"
            /\ CanonicalParent(Top("user").file) = NoDoc]_vars
    /\ [](~CanonicalChainEnds =>
            \A k \in 1..Len(stack["user"]) :
                stack["user"][k].fn = "elapsedTime" /\ stack["user"][k].pc # "write"
                    => Walking)

\* The walk is back at the active note, on a cycle of parents, after more
\* than one lap: the note's descendants has grown beyond its elapsed.
C17_Witness ==
    /\ ~CanonicalChainEnds
    /\ Running("user", "communicateAscendants", "start")
    /\ Top("user").file = activeFile
    /\ Stored(activeFile, "elapsed") > 0
    /\ Stored(activeFile, "descendants") > Stored(activeFile, "elapsed")

(***************************************************************************)
(* C18.  The full recompute from the root terminates on every finite link  *)
(* graph, also when a cycle of resolved links is reachable from the root:  *)
(* a computeTimeTree that is running comes to its end.                     *)
(***************************************************************************)
RecomputeRunning == Calls("user", "computeTimeTree")

C18_RecomputeTerminates == RecomputeRunning ~> ~RecomputeRunning

(***************************************************************************)
(* C19.  Two operations can be in progress at once, and updateProperty     *)
(* writes a note back as the writer read it, with the one attribute it     *)
(* assigns: what another operation wrote to the note between the read and  *)
(* the write is lost.                                                      *)
(***************************************************************************)
Attribute(c, k) == IF k \in DOMAIN c THEN <<c[k]>> ELSE <<>>

C19_LastWriteWins ==
    [][\A d \in Docs :
          fm'[d] # fm[d] =>
              \E t \in Tasks :
                  /\ reads[t].file = d
                  /\ reads'[t] = NoRead
                  /\ \E k \in Keys :
                        \A other \in Keys \ {k} :
                            Attribute(fm'[d], other) = Attribute(reads[t].content, other)]_vars

\* The periodic computeTimeTree has written node_size of A and is about to
\* return, and A has no node_size: the user's command read A before that
\* write and wrote it after.
C19_Witness ==
    /\ Running("timer", "computeTimeTree", "done")
    /\ ~Idle("user")
    /\ Has("A", "elapsed")
    /\ Has("A", "descendants")
    /\ ~Has("A", "node_size")

(***************************************************************************)
(* C20.  A full recompute on a vault with one note whose front matter does *)
(* not parse: that note is left as it was, no attribute of another note is *)
(* taken away again, and when the recompute ends every other note          *)
(* reachable from the root, the children of the failing note included, has *)
(* its elapsed, set to the duration of its sessions, and its descendants.  *)
(***************************************************************************)
C20_BestEffort ==
    /\ [](\A d \in malformed : fm[d] = last.fm[d])
    /\ [][\A d \in Docs : DOMAIN fm[d] \subseteq DOMAIN fm'[d]]_vars
    /\ [](RecomputeDone =>
            \A d \in Reachable(RootFile) \ malformed :
                /\ Has(d, "elapsed")
                /\ fm[d]["elapsed"] = ExpectedElapsed(d)
                /\ Has(d, "descendants"))

\* The scenario with A failing: B, a sibling of A, and C, the child of A,
\* have their attributes; R's descendants is C's 2 and B's 3.
C20_Witness ==
    /\ RecomputeDone
    /\ links = ScenarioLinks
    /\ malformed = {"A"}
    /\ fm["A"] = <<>>
    /\ Has("B", "elapsed") /\ Has("B", "descendants")
    /\ Has("C", "elapsed") /\ Has("C", "descendants")
    /\ Stored("R", "descendants") = 5

(***************************************************************************)
(* C21.  calculateRecursiveElapsedChild changes elapsed only on the note   *)
(* it runs on, only when that note has no links and its elapsed reads 0    *)
(* (absent reads 0), and then to 0; when it returns from a note without    *)
(* links, that note has descendants = 0, and elapsed = 0 if it read 0.     *)
(***************************************************************************)
C21_LeafElapsed ==
    [][(~Idle("user") /\ Top("user").fn = "calculateRecursiveElapsedChild") =>
          LET f == Top("user") IN
          /\ \A d \in Docs :
                Attribute(fm'[d], "elapsed") # Attribute(fm[d], "elapsed") =>
                    /\ d = f.file
                    /\ links[d] = <<>>
                    /\ Stored(d, "elapsed") = 0
                    /\ Attribute(fm'[d], "elapsed") = <<0>>
          /\ (f.pc = "leaf" /\ Len(stack'["user"]) < Len(stack["user"])) =>
                /\ Attribute(fm[f.file], "descendants") = <<0>>
                /\ f.own = Stored(f.file, "elapsed")
                /\ f.own = 0 => Attribute(fm[f.file], "elapsed") = <<0>>]_vars

\* The leaf branch has made its two writes on a note that read elapsed 0 and
\* held descendants 1 before the command.
C21_Witness ==
    /\ Running("user", "calculateRecursiveElapsedChild", "leaf")
    /\ Top("user").own = 0
    /\ Top("user").i = 3
    /\ last.fm[Top("user").file] = [elapsed |-> 1, descendants |-> 1]
    /\ Attribute(fm[Top("user").file], "elapsed") = <<0>>
    /\ Attribute(fm[Top("user").file], "descendants") = <<0>>

(***************************************************************************)
(* C22.  gatherDescendantFiles and getParentFile keep the same notes: for  *)
(* every root folder setting a note passes the filter of the one exactly   *)
(* when it passes the filter of the other, and the notes kept are those in *)
(* the folder: at any depth under it with considerSubdirs, with the folder *)
(* as their parent folder without, all notes when no folder is set.  So    *)
(* every note gatherDescendantFiles collects and every parent              *)
(* communicateAscendants goes to is in the folder.                         *)
(***************************************************************************)
\* The folders a note lies under: the vault root and every folder on its path.
FoldersOf(d) ==
    {<<"/">>} \cup {SubSeq(Path(d), 1, k - 1) : k \in {j \in 2..Len(Path(d)) : Path(d)[j] = "/"}}

InFolder(d) ==
    CASE settings.RootFolderPath = <<>> -> TRUE
      [] settings.considerSubdirs       -> settings.RootFolderPath \in FoldersOf(d)
      [] OTHER                          -> ParentPath(d) = settings.RootFolderPath

C22_SameScope ==
    /\ \A d \in Docs : ChildInScope(d) <=> ParentInScope(d)
    /\ \A k \in 1..Len(stack["user"]) :
          LET f == stack["user"][k] IN
          /\ f.fn = "gatherDescendantFiles" =>
                \A m \in 1..Len(f.files) : InFolder(f.files[m])
          /\ (f.fn = "communicateAscendants" /\ f.parent # NoDoc) => InFolder(f.parent)

(***************************************************************************)
(* C23.  In any sequence of computeTimeTree and elapsedTime, one at a      *)
(* time, no step takes an attribute away from a note; and a note that has  *)
(* lost its links has descendants 0, not none, once the next full          *)
(* recompute has been over it.                                             *)
(***************************************************************************)
C23_NeverDeleted ==
    /\ [][\A d \in Docs : DOMAIN fm[d] \subseteq DOMAIN fm'[d]]_vars
    /\ [](AfterRecompute =>
            \A d \in Reachable(RootFile) :
                (links[d] = <<>> /\ Has(d, "descendants")) => fm[d]["descendants"] = 0)
    /\ [](AfterRecompute => \A d \in Reachable(RootFile) : Has(d, "descendants"))

\* A had the child C and descendants 2 at the end of the command before; its
\* link is gone and the recompute has set its descendants to 0.
C23_Witness ==
    /\ AfterRecompute
    /\ links["A"] = <<>>
    /\ "descendants" \in DOMAIN last.fm["A"]
    /\ last.fm["A"]["descendants"] = 2
    /\ Attribute(fm["A"], "descendants") = <<0>>
    /\ Has("A", "elapsed")

(***************************************************************************)
(* C24.  calculateElapsedTime stores the duration it computes in the       *)
(* note's elapsed: whenever elapsedTime has its result, the active note's  *)
(* elapsed is that value.                                                  *)
(***************************************************************************)
C24_StoredOnReturn ==
    \A k \in 1..Len(stack["user"]) :
        stack["user"][k].fn = "elapsedTime" =>
            Attribute(fm[stack["user"][k].file], "elapsed") = <<stack["user"][k].own>>

(***************************************************************************)
(* C24, as the code has it.  calculateElapsedTime writes nothing: the step *)
(* in which elapsedTime calls it leaves every attribute as it was.  The    *)
(* next step of elapsedTime is the one write, of elapsed on the active     *)
(* note and of nothing else; from then on, until elapsedTime returns, the  *)
(* stored elapsed is the value calculateElapsedTime returned.              *)
(***************************************************************************)
C24_CallerStores ==
    /\ [][(Idle("user") /\ ~Idle("user")') => fm' = fm]_vars
    /\ [][Running("user", "elapsedTime", "write") /\ stack' # stack =>
            /\ \A d \in Docs \ {activeFile} : fm'[d] = fm[d]
            /\ \A k \in Keys \ {"elapsed"} :
                  Attribute(fm'[activeFile], k) = Attribute(fm[activeFile], k)
            /\ Attribute(fm'[activeFile], "elapsed") = <<Top("user").own>>]_vars
    /\ [](\A k \in 1..Len(stack["user"]) :
            (stack["user"][k].fn = "elapsedTime" /\ stack["user"][k].pc # "write") =>
                Attribute(fm[stack["user"][k].file], "elapsed") = <<stack["user"][k].own>>)

\* elapsedTime is about to return, and C's elapsed is the 2 of its sessions.
C24_Witness ==
    /\ Running("user", "elapsedTime", "done")
    /\ Top("user").file = "C"
    /\ Top("user").own = 2
    /\ Attribute(fm["C"], "elapsed") = <<2>>

(***************************************************************************)
(* C25.  The phases of a command.  In computeTimeTree no write of elapsed  *)
(* comes after a write of descendants, and the writes of descendants are   *)
(* made in the second pass, those of node_size after it.  In elapsedTime   *)
(* the elapsed of the active note is written before the walk up the        *)
(* parents starts, and the resize starts after the walk has ended.         *)
(***************************************************************************)
\* A step that ends an updateProperty of the user's command, and the
\* attribute its updater assigns.
WriteStep == reads["user"] # NoRead /\ reads'["user"] = NoRead

WrittenKey ==
    LET f == Top("user")
    IN  CASE f.fn \in {"elapsedTime", "calculateRecursiveElapsedTime"} -> "elapsed"
          [] f.fn = "calculateRecursiveElapsedChild" /\ f.pc = "leaf" ->
                IF f.own = 0 /\ f.i = 1 THEN "elapsed" ELSE "descendants"
          [] f.fn = "calculateRecursiveElapsedChild" /\ f.pc # "leaf" -> "descendants"
          [] OTHER -> "node_size"

\* The second pass has returned from an earlier child of a note on the call
\* chain, and so has written that child's descendants.
EarlierChildDone ==
    \E k \in 1..Len(stack["user"]) :
        /\ stack["user"][k].fn = "calculateRecursiveElapsedChild"
        /\ \E m \in 1..(stack["user"][k].i - 2) : links[stack["user"][k].file][m] # NoDoc

Phase(fn, pc) ==
    /\ stack["user"] # <<>>
    /\ stack["user"][1].fn = fn
    /\ stack["user"][1].pc = pc

WalkBeforeResize ==
    /\ (Calls("user", "communicateAscendants")
        => /\ Phase("elapsedTime", "size")
           /\ Attribute(fm[activeFile], "elapsed") = <<stack["user"][1].own>>
           /\ ~Calls("user", "updateNodeSizeFromFile"))
    /\ (Calls("user", "updateNodeSizeFromFile")
        => Phase("elapsedTime", "done") \/ Phase("computeTimeTree", "done"))

C25_PhasesOfWrites ==
    /\ [][(WriteStep /\ stack["user"][1].fn = "computeTimeTree") =>
            /\ WrittenKey = "elapsed" => ~EarlierChildDone
            /\ WrittenKey = "descendants" => Phase("computeTimeTree", "size")
            /\ WrittenKey = "node_size" => Phase("computeTimeTree", "done")]_vars
    /\ []WalkBeforeResize

(***************************************************************************)
(* C25, as the code has it.  The phases hold for the values: in the first  *)
(* pass of computeTimeTree only elapsed changes, in the second only        *)
(* descendants, in the resize only node_size, and likewise in the write,   *)
(* the walk and the resize of elapsedTime.  A write of elapsed after the   *)
(* first pass is one of the leaf branch of the second pass, on a note with *)
(* no links, and leaves the stored value, 0, as it is.                     *)
(***************************************************************************)
OnlyChanges(key) ==
    \A d \in Docs : \A k \in Keys \ {key} : Attribute(fm'[d], k) = Attribute(fm[d], k)

C25_PhasesOfValues ==
    /\ [][/\ Phase("computeTimeTree", "child") => OnlyChanges("elapsed")
          /\ Phase("computeTimeTree", "size") => OnlyChanges("descendants")
          /\ Phase("computeTimeTree", "done") => OnlyChanges("node_size")
          /\ Phase("elapsedTime", "write") => OnlyChanges("elapsed")
          /\ Phase("elapsedTime", "size") => OnlyChanges("descendants")
          /\ Phase("elapsedTime", "done") => OnlyChanges("node_size")]_vars
    /\ [][(WriteStep /\ WrittenKey = "elapsed" /\ ~Phase("computeTimeTree", "child")
           /\ ~Phase("elapsedTime", "write")) =>
            /\ Phase("computeTimeTree", "size")
            /\ links[Top("user").file] = <<>>
            /\ Attribute(fm[Top("user").file], "elapsed") = <<0>>
            /\ fm' = fm]_vars
    /\ []WalkBeforeResize

\* The second pass is in the leaf branch of B, about to write elapsed = 0 a
\* second time, after it has written the descendants of A and of C.
C25_Witness ==
    /\ Phase("computeTimeTree", "size")
    /\ Running("user", "calculateRecursiveElapsedChild", "leaf")
    /\ links = ScenarioLinks
    /\ Top("user").file = "B"
    /\ Top("user").own = 0
    /\ Top("user").i = 1
    /\ reads["user"].file = "B"
    /\ Has("A", "descendants")
    /\ Attribute(fm["B"], "elapsed") = <<0>>

(***************************************************************************)
(* C26.  After a full recompute on an acyclic link graph, descendants of a *)
(* reachable note is the sum of elapsed over the link paths that start at  *)
(* it: a note reached by k paths counts k times.  Where every note is      *)
(* reached by one path at most, it is the sum of elapsed over the proper   *)
(* descendants.                                                            *)
(***************************************************************************)
\* The number of link paths from d to x, of one link or more.
RECURSIVE NumPaths(_, _)
NumPaths(d, x) ==
    SumSeq([j \in 1..Len(links[d]) |->
               IF links[d][j] = NoDoc THEN 0
               ELSE (IF links[d][j] = x THEN 1 ELSE 0) + NumPaths(links[d][j], x)])

ElapsedOverPaths(d) ==
    SumSeq([k \in 1..Len(DocOrder) |->
               NumPaths(d, DocOrder[k]) * Stored(DocOrder[k], "elapsed")])

ElapsedOverDescendants(d) ==
    SumSeq([k \in 1..Len(DocOrder) |->
               IF DocOrder[k] \in Reachable(d) \ {d}
               THEN Stored(DocOrder[k], "elapsed") ELSE 0])

C26_SumOverPaths ==
    AfterRecompute =>
        \A d \in Reachable(RootFile) :
            /\ Attribute(fm[d], "descendants") = <<ElapsedOverPaths(d)>>
            /\ (\A x \in Docs : NumPaths(d, x) <= 1) =>
                  fm[d]["descendants"] = ElapsedOverDescendants(d)

\* The diamond R -> {A, C}, A -> {C}: C, with elapsed 2, is reached from R by
\* two paths and counts twice, 5 + 2 + 2.
C26_Witness ==
    /\ AfterRecompute
    /\ links = DiamondLinks
    /\ NumPaths("R", "C") = 2
    /\ Stored("C", "elapsed") = 2
    /\ Stored("R", "descendants") = 9

(***************************************************************************)
(* C27.  While communicateAscendants runs, the only attribute that changes *)
(* is descendants, and only on notes of the chain of canonical parents of  *)
(* the note it was called on: that note itself is left as it is.  The walk *)
(* ends only at a note without canonical parent, so it goes on past the    *)
(* configured root note when that note has an in-scope source.             *)
(***************************************************************************)
RECURSIVE CanonicalChain(_, _)
CanonicalChain(d, n) ==
    IF n = 0 \/ CanonicalParent(d) = NoDoc THEN {}
    ELSE {CanonicalParent(d)} \cup CanonicalChain(CanonicalParent(d), n - 1)

ChainOfActive == CanonicalChain(activeFile, Cardinality(Docs))

WalkEndsWithoutParent ==
    Running("user", "communicateAscendants", "return") =>
        /\ CanonicalParent(Top("user").file) = NoDoc
        /\ \A P \in ChainOfActive : Has(P, "descendants")

C27_WalkFrame ==
    /\ [][Walking =>
            /\ OnlyChanges("descendants")
            /\ \A d \in Docs : fm'[d] # fm[d] => d \in ChainOfActive
            /\ fm'[activeFile] = fm[activeFile]]_vars
    /\ []WalkEndsWithoutParent

(***************************************************************************)
(* C27, as the code has it.  The note the walk was called on is left as it *)
(* is when it is not on its own chain of canonical parents; when it is (it *)
(* links to itself, or a cycle of parents leads back to it), the walk      *)
(* rewrites its descendants too.                                           *)
(***************************************************************************)
C27_WalkFrameOffCycle ==
    /\ [][Walking =>
            /\ OnlyChanges("descendants")
            /\ \A d \in Docs : fm'[d] # fm[d] => d \in ChainOfActive
            /\ activeFile \notin ChainOfActive => fm'[activeFile] = fm[activeFile]]_vars
    /\ []WalkEndsWithoutParent

\* The walk from the active note has gone on past the root note R to a source
\* of R and ends there; the active note has its elapsed only.
C27_Witness ==
    /\ Running("user", "communicateAscendants", "return")
    /\ RootFile \in ChainOfActive
    /\ Top("user").file # RootFile
    /\ Has(RootFile, "descendants")
    /\ Has(Top("user").file, "descendants")
    /\ DOMAIN fm[activeFile] = {"elapsed"}

(***************************************************************************)
(* C28.  Whatever onload, saveSettings and onunload have done, one timer   *)
(* of the periodic recompute is active at most, and once onunload has run  *)
(* none is.                                                                *)
(***************************************************************************)
C28_NoTimerAfterUnload ==
    /\ Cardinality(intervals) <= 1
    /\ unloaded => intervals = {}

(***************************************************************************)
(* C29.  The node_size that updateNodeSizeFromFile writes grows with acc:  *)
(* of two collected notes, the one with the smaller or equal acc has the   *)
(* smaller or equal node_size, and two with the same acc have the same     *)
(* node_size.  A note that is collected more than once is written the same *)
(* node_size every time.                                                   *)
(***************************************************************************)
\* node_size a <= node_size b, on their squares (the areas), as fractions.
AreaLeq(a, b) == a.num * b.den <= b.num * a.den

\* The next file of the write loop was written earlier in the same loop.
WrittenBefore ==
    /\ Running("user", "updateNodeSizeFromFile", "write")
    /\ Top("user").i <= Len(Top("user").files)
    /\ \E k \in 1..(Top("user").i - 1) : Top("user").files[k] = Top("user").files[Top("user").i]

C29_Monotone ==
    /\ [](SizesWritten =>
            \A X, Y \in Collected :
                /\ Acc(X) <= Acc(Y) => AreaLeq(fm[X]["node_size"], fm[Y]["node_size"])
                /\ Acc(X) = Acc(Y) => fm[X]["node_size"] = fm[Y]["node_size"])
    /\ [][WrittenBefore => fm' = fm]_vars

\* Sizes are written: one note was collected and written twice, and of two
\* notes the one with less acc has the strictly smaller size, above 6.
C29_Witness ==
    /\ SizesWritten
    /\ \E k, j \in 1..Len(Top("user").files) : k < j /\ Top("user").files[k] = Top("user").files[j]
    /\ \E X, Y \in Collected :
          /\ Acc(X) < Acc(Y)
          /\ ~AreaLeq(fm[Y]["node_size"], fm[X]["node_size"])
          /\ fm[X]["node_size"] # [num |-> 36, den |-> 1]

(***************************************************************************)
(* C30.  On a tree (every note reached from the root by one link path)     *)
(* whose notes all pass the scope filter, with durations that are not      *)
(* negative: when computeTimeTree is about to return, every note of the    *)
(* tree stores the elapsed of its sessions, acc of the root is the sum of  *)
(* elapsed over the tree and no note has a larger acc; node_size of the    *)
(* root is 100 when some note has elapsed other than 0, and node_size of   *)
(* every note is 6 when all elapsed are 0.                                 *)
(***************************************************************************)
TreeInScope ==
    /\ RootFile # NoDoc
    /\ \A x \in Docs : NumPaths(RootFile, x) <= (IF x = RootFile THEN 0 ELSE 1)
    /\ \A x \in Reachable(RootFile) \ {RootFile} : ChildInScope(x)

====
